---- MODULE Spec2Model ----
(***************************************************************************)
(* Sampler synthesizer: the two audio-worklet processors of the repository *)
(* (SynthProcessor of synth-processor.js, one-shot playback with a biquad  *)
(* filter; MiniSynthProcessor of mini-synth-processor.js, looping playback *)
(* with voice ageing), the MiniSynthNode wrapper that queues control       *)
(* messages until the processor is ready, and the start-up handshake of    *)
(* the direct-worklet UI in main.js.                                       *)
(*                                                                         *)
(* Numbers.  JavaScript doubles are modelled by fixed-point integers:      *)
(*   - envelope levels in units of 1/LEVEL_ONE;                            *)
(*   - cursors and pitch factors in units of 1/PTR_ONE of a frame;         *)
(*   - normalized loop bounds (0..1) in units of 1/NORM_ONE;               *)
(*   - durations in milliseconds, resonance in units of 1/10000.           *)
(* Quotients are rounded down.                                             *)
(***************************************************************************)
EXTENDS Integers, Sequences, FiniteSets, TLC

\* ------------------------------------------------------------------ bounds
\* Size of the voice pool.  Both processors build 16 voices; the model keeps
\* the construction loop and scales the count.
MAX_VOICES == 2
\* Frames per render block (left.length; 128 in a browser).
RENDER_QUANTUM == 2
\* Resolution of the fractional cursor: PTR_ONE units are one frame.
PTR_ONE == 2
\* Resolution of a normalized loop bound: NORM_ONE units are 1.0.
NORM_ONE == 2
\* Cap of MiniSynthProcessor's per-voice age counter (age++ is unbounded).
MaxAge == 4
\* Cap of the init-wasm messages a run delivers.
MaxWasm == 2

\* --------------------------------------------------------------- constants
\* 1.0 as an envelope level.
LEVEL_ONE == 10000000
\* The release threshold 0.00001 as a level.
EPSILON == LEVEL_ONE \div 100000
\* Math.max(0.001, t): the shortest envelope duration, in milliseconds.
MIN_TIME == 1

Max(a, b) == IF a >= b THEN a ELSE b
Min(a, b) == IF a <= b THEN a ELSE b

\* span / (t * sampleRate): the per-sample step of a phase that crosses span in
\* t milliseconds at sr Hz.  (t * sr) \div 100 is the duration in tenths of a
\* sample period.
Rate(span, t, sr) == (span * 10) \div Max(1, (t * sr) \div 100)

\* ------------------------------------------------------------ input domains
\* Note identifiers carried by noteOn / noteOff.
NOTES == {60, 69}
\* Sample buffers a load-sample message may carry (mono frames).
SAMPLE_A == <<0, 1, 0, -1>>
SAMPLE_B == <<1, 1>>
\* data.pitchFactor: 0 stands for a missing / zero field (read as 1.0).
PITCHES == {0, 2 * PTR_ONE}

\* ===================================================== synth-processor.js
\* ------------------------------------------------------------ ADSREnvelope
\* new ADSREnvelope(sampleRate)
SEnvNew(sr) ==
    [sampleRate |-> sr, state |-> "idle", level |-> 0,
     attackTime |-> 50, decayTime |-> 100,
     sustainLevel |-> (LEVEL_ONE \div 10) * 8, releaseTime |-> 500]

\* A setParams that stores the durations as given.
SEnvSetParamsRaw(e, attack, decay, sustain, release) ==
    [e EXCEPT !.attackTime = attack,
              !.decayTime = decay,
              !.sustainLevel = sustain,
              !.releaseTime = release]

\* A setParams that also rewinds the level.
SEnvSetParamsRewind(e, attack, decay, sustain, release) ==
    [e EXCEPT !.attackTime = Max(MIN_TIME, attack),
              !.decayTime = Max(MIN_TIME, decay),
              !.sustainLevel = sustain,
              !.releaseTime = Max(MIN_TIME, release),
              !.level = 0]

SEnvSetParams(e, attack, decay, sustain, release) ==
    [e EXCEPT !.attackTime = Max(MIN_TIME, attack),
              !.decayTime = Max(MIN_TIME, decay),
              !.sustainLevel = sustain,
              !.releaseTime = Max(MIN_TIME, release)]

SEnvNoteOn(e) == [e EXCEPT !.state = "attack", !.level = 0]

\* A noteOff that ends the envelope at once when its level is 0.
SEnvNoteOffCut(e) ==
    IF e.level = 0 THEN [e EXCEPT !.state = "idle"] ELSE [e EXCEPT !.state = "release"]

SEnvNoteOff(e) == [e EXCEPT !.state = "release"]

\* A process() whose attack hands over to sustain, skipping decay.
SEnvProcessSkipDecay(e) ==
    CASE e.state = "attack" ->
           LET l == e.level + Rate(LEVEL_ONE, e.attackTime, e.sampleRate)
           IN  IF l >= LEVEL_ONE
               THEN [e EXCEPT !.level = LEVEL_ONE, !.state = "sustain"]
               ELSE [e EXCEPT !.level = l]
      [] e.state = "decay" ->
           LET l == e.level - Rate(LEVEL_ONE - e.sustainLevel, e.decayTime, e.sampleRate)
           IN  IF l <= e.sustainLevel
               THEN [e EXCEPT !.level = e.sustainLevel, !.state = "sustain"]
               ELSE [e EXCEPT !.level = l]
      [] e.state = "release" ->
           LET l == e.level - Rate(e.level, e.releaseTime, e.sampleRate)
           IN  IF l <= EPSILON
               THEN [e EXCEPT !.level = 0, !.state = "idle"]
               ELSE [e EXCEPT !.level = l]
      [] OTHER -> e

\* One process() call; the returned value is the level of the result.
SEnvProcess(e) ==
    CASE e.state = "attack" ->
           LET l == e.level + Rate(LEVEL_ONE, e.attackTime, e.sampleRate)
           IN  IF l >= LEVEL_ONE
               THEN [e EXCEPT !.level = LEVEL_ONE, !.state = "decay"]
               ELSE [e EXCEPT !.level = l]
      [] e.state = "decay" ->
           LET l == e.level - Rate(LEVEL_ONE - e.sustainLevel, e.decayTime, e.sampleRate)
           IN  IF l <= e.sustainLevel
               THEN [e EXCEPT !.level = e.sustainLevel, !.state = "sustain"]
               ELSE [e EXCEPT !.level = l]
      [] e.state = "release" ->
           LET l == e.level - Rate(e.level, e.releaseTime, e.sampleRate)
           IN  IF l <= EPSILON
               THEN [e EXCEPT !.level = 0, !.state = "idle"]
               ELSE [e EXCEPT !.level = l]
      [] OTHER -> e

\* ------------------------------------------------------------ BiquadFilter
\* A history value is an exact number, or a number the model does not track
\* (the result of the recomputed low-pass taps, which need sin and cos).
Known(x) == [k |-> TRUE, v |-> x]
Unknown == [k |-> FALSE, v |-> 0]

BiquadReset == [x1 |-> 0, x2 |-> 0, y1 |-> Known(0), y2 |-> Known(0)]

\* result = a0*input + a1*x1 + a2*x2 - b1*y1 - b2*y2.  With exact taps it is
\* computed; with low-pass taps it is 0 when input and history are all 0
\* (the filter is linear) and untracked otherwise.
BiquadResult(f, input, coeffs) ==
    IF coeffs.lowpass
    THEN IF input = 0 /\ f.x1 = 0 /\ f.x2 = 0 /\ f.y1 = Known(0) /\ f.y2 = Known(0)
         THEN Known(0) ELSE Unknown
    ELSE IF f.y1.k /\ f.y2.k
         THEN Known(coeffs.c[1] * input + coeffs.c[2] * f.x1 + coeffs.c[3] * f.x2
                    - coeffs.c[4] * f.y1.v - coeffs.c[5] * f.y2.v)
         ELSE Unknown

BiquadProcess(f, input, coeffs) ==
    [x2 |-> f.x1, x1 |-> input, y2 |-> f.y1, y1 |-> BiquadResult(f, input, coeffs)]

\* ------------------------------------------------------------------- Voice
\* sampleData[i] || 0 for a 0-based index i (out of range reads give 0).
FrameAt(frames, i) == IF i >= 0 /\ i < Len(frames) THEN frames[i + 1] ELSE 0

\* s1 + (s2 - s1) * ptr_frac at cursor ptr, in units of 1/PTR_ONE.
Interpolate(frames, ptr) ==
    LET ptr_int == ptr \div PTR_ONE
        ptr_frac == ptr % PTR_ONE
        s1 == FrameAt(frames, ptr_int)
        s2 == FrameAt(frames, ptr_int + 1)
    IN  s1 * PTR_ONE + (s2 - s1) * ptr_frac

\* new Voice(sampleRate): the constructor calls reset().
SVoiceNew(sr) ==
    [isActive |-> FALSE, note |-> -1, pitchFactor |-> PTR_ONE, samplePtr |-> 0,
     loopStart |-> 0, loopEnd |-> 0, envelope |-> SEnvNew(sr), filter |-> BiquadReset]

SVoiceNoteOnKeepFilter(v, note, pitchFactor, loopStart, loopEnd) ==
    [v EXCEPT !.note = note, !.pitchFactor = pitchFactor,
              !.loopStart = loopStart, !.loopEnd = loopEnd,
              !.samplePtr = loopStart * PTR_ONE,
              !.isActive = TRUE,
              !.envelope = SEnvNoteOn(v.envelope)]

SVoiceNoteOn(v, note, pitchFactor, loopStart, loopEnd) ==
    [v EXCEPT !.note = note, !.pitchFactor = pitchFactor,
              !.loopStart = loopStart, !.loopEnd = loopEnd,
              !.samplePtr = loopStart * PTR_ONE,
              !.isActive = TRUE,
              !.envelope = SEnvNoteOn(v.envelope),
              !.filter = BiquadReset]

SVoiceNoteOff(v) == [v EXCEPT !.envelope = SEnvNoteOff(v.envelope)]

\* Voice.process: the voice after the call and the value returned.
SVoiceProcessNoStop(v, frames, coeffs) ==
    IF ~v.isActive THEN [voice |-> v, out |-> Known(0)]
    ELSE
      LET env == SEnvProcess(v.envelope)
          input == Interpolate(frames, v.samplePtr) * env.level
          flt == BiquadProcess(v.filter, input, coeffs)
          ptr == v.samplePtr + v.pitchFactor
          w == [v EXCEPT !.envelope = env, !.filter = flt, !.samplePtr = ptr]
      IN  [voice |-> [w EXCEPT !.isActive = (env.state # "idle")], out |-> flt.y1]

\* process() without the test of envelope.state === 'idle' at its end.
SVoiceProcessKeepActive(v, frames, coeffs) ==
    IF ~v.isActive THEN [voice |-> v, out |-> Known(0)]
    ELSE
      LET env == SEnvProcess(v.envelope)
          input == Interpolate(frames, v.samplePtr) * env.level
          flt == BiquadProcess(v.filter, input, coeffs)
          ptr == v.samplePtr + v.pitchFactor
          w == [v EXCEPT !.envelope = env, !.filter = flt, !.samplePtr = ptr]
      IN  IF ptr >= v.loopEnd * PTR_ONE
          THEN [voice |-> [w EXCEPT !.isActive = FALSE], out |-> Known(0)]
          ELSE [voice |-> w, out |-> flt.y1]

SVoiceProcess(v, frames, coeffs) ==
    IF ~v.isActive THEN [voice |-> v, out |-> Known(0)]
    ELSE
      LET env == SEnvProcess(v.envelope)
          input == Interpolate(frames, v.samplePtr) * env.level
          flt == BiquadProcess(v.filter, input, coeffs)
          ptr == v.samplePtr + v.pitchFactor
          w == [v EXCEPT !.envelope = env, !.filter = flt, !.samplePtr = ptr]
      IN  IF ptr >= v.loopEnd * PTR_ONE
          THEN [voice |-> [w EXCEPT !.isActive = FALSE], out |-> Known(0)]
          ELSE [voice |-> [w EXCEPT !.isActive = (env.state # "idle")],
                out |-> flt.y1]

\* ---------------------------------------------------------- SynthProcessor
VARIABLES
    variant,       \* which processor module the worklet runs: "synth" | "mini"
    sampleRate,    \* the AudioWorkletGlobalScope's sampleRate, in Hz
    frame,         \* index i of the sample loop inside process(); 0 between blocks
    out,           \* the value last written to the output channels
    isReady,       \* SynthProcessor._isReady
    sampleData,    \* SynthProcessor._sampleData
    voices,        \* SynthProcessor.voices
    params,        \* SynthProcessor.params
    filterCoeffs,  \* SynthProcessor.filterCoeffs
    wasmPending,   \* WebAssembly.instantiate promises not yet settled
    readyPosted    \* { type: 'ready' } messages posted on the port

synthVars == <<isReady, sampleData, voices, params, filterCoeffs, wasmPending, readyPosted>>

NullData == [isNull |-> TRUE, frames |-> <<>>]
Float32Array(frames) == [isNull |-> FALSE, frames |-> frames]

\* The state the SynthProcessor constructor leaves.
SynthInit ==
    /\ isReady = FALSE
    /\ sampleData = NullData
    /\ voices = [i \in 1..MAX_VOICES |-> SVoiceNew(sampleRate)]
    /\ params = [attack |-> 50, decay |-> 100, sustain |-> (LEVEL_ONE \div 10) * 8,
                 release |-> 500, filterCutoff |-> 20000, filterResonance |-> 0]
    /\ filterCoeffs = [lowpass |-> FALSE, c |-> <<1, 0, 0, 0, 0>>, frequency |-> 0, Q |-> 0]
    /\ wasmPending = 0
    /\ readyPosted = 0

\* recalculateFilterCoeffs taking the cutoff and the resonance as they are.
RecalculateFilterCoeffsRaw(p, sr) ==
    [lowpass |-> TRUE, c |-> <<0, 0, 0, 0, 0>>,
     frequency |-> p.filterCutoff, Q |-> p.filterResonance]

\* recalculateFilterCoeffs: the clamped cutoff and Q the taps are derived from.
\* The taps themselves (sin, cos of omega) are not computed.
RecalculateFilterCoeffs(p, sr) ==
    LET frequency == Max(20, Min(p.filterCutoff, (sr * 45) \div 100))
        Q == Max(10, IF p.filterResonance = 0 THEN 1 ELSE p.filterResonance)
    IN  [lowpass |-> TRUE, c |-> <<0, 0, 0, 0, 0>>, frequency |-> frequency, Q |-> Q]

\* this.params[data.name] = data.value (an unknown name adds a key).
SetKey(p, name, value) ==
    [k \in (DOMAIN p) \cup {name} |-> IF k = name THEN value ELSE p[k]]

StartsWithFilter(name) == name \in {"filterCutoff", "filterResonance", "filterDrive"}

\* this.voices.find(v => !v.isActive), 0 when there is none.
FirstInactive(vs) ==
    IF \E i \in 1..Len(vs) : ~vs[i].isActive
    THEN CHOOSE i \in 1..Len(vs) :
             ~vs[i].isActive /\ \A j \in 1..(i - 1) : vs[j].isActive
    ELSE 0

\* noteOn: find an inactive voice, else voices[0].
SAllocate(vs) == IF FirstInactive(vs) # 0 THEN FirstInactive(vs) ELSE 1

\* this.voices.find(v => v.note === note): the isActive test left out.
FirstWithNote(vs, note) ==
    IF \E i \in 1..Len(vs) : vs[i].note = note
    THEN CHOOSE i \in 1..Len(vs) :
             /\ vs[i].note = note
             /\ \A j \in 1..(i - 1) : vs[j].note # note
    ELSE 0

\* this.voices.find(v => v.isActive && v.note === note), 0 when there is none.
FirstPlaying(vs, note) ==
    IF \E i \in 1..Len(vs) : vs[i].isActive /\ vs[i].note = note
    THEN CHOOSE i \in 1..Len(vs) :
             /\ vs[i].isActive /\ vs[i].note = note
             /\ \A j \in 1..(i - 1) : ~(vs[j].isActive /\ vs[j].note = note)
    ELSE 0

LoopStartInSamples(d, len) ==
    Max(0, (d.loopStart * len) \div NORM_ONE)

LoopEndInSamples(d, len) ==
    Min(len - 1, ((IF d.loopEnd = 0 THEN NORM_ONE ELSE d.loopEnd) * len) \div NORM_ONE)

\* Mutant: with no inactive voice the pool grows by a new voice.
SNoteOnVoicesPush(vs, data, d) ==
    IF data.isNull THEN vs
    ELSE LET len == Len(data.frames)
             ls == LoopStartInSamples(d, len)
             le == LoopEndInSamples(d, len)
             pf == IF d.pitchFactor = 0 THEN PTR_ONE ELSE d.pitchFactor
             w == SVoiceNoteOn(SVoiceNew(vs[1].envelope.sampleRate), d.note, pf, ls, Max(ls + 1, le))
         IN  IF FirstInactive(vs) = 0
             THEN Append(vs, w)
             ELSE [vs EXCEPT ![FirstInactive(vs)] =
                      SVoiceNoteOn(@, d.note, pf, ls, Max(ls + 1, le))]

SNoteOnVoicesRebind(vs, data, d) ==
    IF data.isNull THEN vs
    ELSE LET len == Len(data.frames)
             ls == LoopStartInSamples(d, len)
             le == LoopEndInSamples(d, len)
             pf == IF d.pitchFactor = 0 THEN PTR_ONE ELSE d.pitchFactor
         IN  IF FirstInactive(vs) = 0
             THEN [vs EXCEPT ![SAllocate(vs)].note = d.note]
             ELSE [vs EXCEPT ![FirstInactive(vs)] =
                      SVoiceNoteOn(@, d.note, pf, ls, Max(ls + 1, le))]

\* The voices after handleMessage({type: 'noteOn', ...}).
SNoteOnVoices(vs, data, d) ==
    IF data.isNull THEN vs
    ELSE LET len == Len(data.frames)
             ls == LoopStartInSamples(d, len)
             le == LoopEndInSamples(d, len)
             pf == IF d.pitchFactor = 0 THEN PTR_ONE ELSE d.pitchFactor
         IN  [vs EXCEPT ![SAllocate(vs)] =
                 SVoiceNoteOn(@, d.note, pf, ls, Max(ls + 1, le))]

\* The voices after handleMessage({type: 'noteOff', note}).
SNoteOffVoices(vs, d) ==
    IF FirstPlaying(vs, d.note) = 0 THEN vs
    ELSE [vs EXCEPT ![FirstPlaying(vs, d.note)] = SVoiceNoteOff(@)]

SLoadSample(d) ==
    /\ d.type = "load-sample"
    /\ sampleData' = d.sampleData
    /\ UNCHANGED <<isReady, voices, params, filterCoeffs, wasmPending, readyPosted>>

SParam(d) ==
    /\ d.type = "param"
    /\ params' = SetKey(params, d.name, d.value)
    /\ IF StartsWithFilter(d.name)
       THEN /\ filterCoeffs' = RecalculateFilterCoeffs(params', sampleRate)
            /\ UNCHANGED voices
       ELSE /\ voices' = [i \in 1..Len(voices) |->
                 [voices[i] EXCEPT !.envelope =
                     SEnvSetParams(@, params'.attack, params'.decay,
                                   params'.sustain, params'.release)]]
            /\ UNCHANGED filterCoeffs
    /\ UNCHANGED <<isReady, sampleData, wasmPending, readyPosted>>

SNoteOn(d) ==
    /\ d.type = "noteOn"
    /\ voices' = SNoteOnVoices(voices, sampleData, d)
    /\ UNCHANGED <<isReady, sampleData, params, filterCoeffs, wasmPending, readyPosted>>

SNoteOff(d) ==
    /\ d.type = "noteOff"
    /\ voices' = SNoteOffVoices(voices, d)
    /\ UNCHANGED <<isReady, sampleData, params, filterCoeffs, wasmPending, readyPosted>>

\* init-wasm starts WebAssembly.instantiate and returns; the promise settles later.
SInitWasm(d) ==
    /\ d.type = "init-wasm"
    /\ wasmPending' = wasmPending + 1
    /\ UNCHANGED <<isReady, sampleData, voices, params, filterCoeffs, readyPosted>>

\* !data || !data.type, or a type no branch handles.
SIgnored(d) ==
    /\ d.type \notin {"load-sample", "param", "noteOn", "noteOff", "init-wasm"}
    /\ UNCHANGED synthVars

SHandleMessage(d) ==
    \/ SLoadSample(d)
    \/ SParam(d)
    \/ SNoteOn(d)
    \/ SNoteOff(d)
    \/ SInitWasm(d)
    \/ SIgnored(d)

\* The then / catch callback of WebAssembly.instantiate: both set _isReady and
\* post ready.
SWasmSettled ==
    /\ wasmPending > 0
    /\ wasmPending' = wasmPending - 1
    /\ isReady' = TRUE
    /\ readyPosted' = readyPosted + 1
    /\ UNCHANGED <<sampleData, voices, params, filterCoeffs>>

\* Sum of the voices' return values; untracked as soon as one of them is.
RECURSIVE SumOut(_, _)
SumOut(rs, n) ==
    IF n = 0 THEN Known(0)
    ELSE LET rest == SumOut(rs, n - 1)
         IN  IF rest.k /\ rs[n].out.k THEN Known(rest.v + rs[n].out.v) ELSE Unknown

\* Math.max(-1, Math.min(1, val * 0.25)), in units of 1/(4 * PTR_ONE * LEVEL_ONE).
SOutputStage(val) ==
    IF val.k
    THEN Known(Max(0 - 4 * PTR_ONE * LEVEL_ONE, Min(4 * PTR_ONE * LEVEL_ONE, val.v)))
    ELSE Unknown

\* process() whose guard tests only the ready flag.
SProcessSilentReadyOnly ==
    /\ frame = 0
    /\ ~isReady
    /\ out' = Known(0)
    /\ UNCHANGED <<frame, synthVars>>

\* process() whose guard drops the sample when the processor is not ready.
SProcessSilentDropSample ==
    /\ frame = 0
    /\ ~isReady \/ sampleData.isNull
    /\ out' = Known(0)
    /\ sampleData' = NullData
    /\ UNCHANGED <<frame, isReady, voices, params, filterCoeffs, wasmPending, readyPosted>>

\* process(), the guard at its top: not ready or no sample, the block is zeroed.
SProcessSilent ==
    /\ frame = 0
    /\ ~isReady \/ sampleData.isNull
    /\ out' = Known(0)
    /\ UNCHANGED <<frame, synthVars>>

\* process(), one iteration of the sample loop: every active voice renders one
\* sample, the sum goes through the output stage. The iteration that fills
\* the block returns.
SProcessSample ==
    /\ frame > 0 \/ (isReady /\ ~sampleData.isNull)
    /\ LET rs == [i \in 1..Len(voices) |->
                    SVoiceProcess(voices[i], sampleData.frames, filterCoeffs)]
       IN  /\ voices' = [i \in 1..Len(voices) |-> rs[i].voice]
           /\ out' = SOutputStage(SumOut(rs, Len(voices)))
    /\ frame' = IF frame + 1 >= RENDER_QUANTUM THEN 0 ELSE frame + 1
    /\ UNCHANGED <<isReady, sampleData, params, filterCoeffs, wasmPending, readyPosted>>

\* ================================================= mini-synth-processor.js
\* MIDI notes carried by the noteOn / noteOff messages of MiniSynthNode.
MIDI_NOTES == {69, 81}

\* ------------------------------------------------------------ ADSREnvelope
MEnvNew ==
    [state |-> "idle", attackRate |-> 0, decayRate |-> 0,
     sustainLevel |-> LEVEL_ONE, releaseRate |-> 0, value |-> 0]

\* A rate a third of 1 / (attack * sampleRate).
MRateThird(t, sr) == IF t > 0 THEN Rate(LEVEL_ONE, t, sr) \div 3 ELSE LEVEL_ONE

\* attack > 0 ? 1 / (attack * sampleRate) : 1
MRate(t, sr) == IF t > 0 THEN Rate(LEVEL_ONE, t, sr) ELSE LEVEL_ONE

MEnvSetParams(e, sr, attack, decay, sustain, release) ==
    [e EXCEPT !.attackRate = MRate(attack, sr),
              !.decayRate = MRate(decay, sr),
              !.sustainLevel = sustain,
              !.releaseRate = MRate(release, sr)]

MEnvNoteOn(e) == [e EXCEPT !.state = "attack"]

MEnvNoteOff(e) == IF e.state # "idle" THEN [e EXCEPT !.state = "release"] ELSE e

MEnvProcess(e) ==
    CASE e.state = "attack" ->
           LET x == e.value + e.attackRate
           IN  IF x >= LEVEL_ONE
               THEN [e EXCEPT !.value = LEVEL_ONE, !.state = "decay"]
               ELSE [e EXCEPT !.value = x]
      [] e.state = "decay" ->
           LET x == e.value - e.decayRate
           IN  IF x <= e.sustainLevel
               THEN [e EXCEPT !.value = e.sustainLevel, !.state = "sustain"]
               ELSE [e EXCEPT !.value = x]
      [] e.state = "sustain" -> [e EXCEPT !.value = e.sustainLevel]
      [] e.state = "release" ->
           LET x == e.value - e.releaseRate
           IN  IF x <= 0
               THEN [e EXCEPT !.value = 0, !.state = "idle"]
               ELSE [e EXCEPT !.value = x]
      [] OTHER -> [e EXCEPT !.value = 0]

MEnvIsIdle(e) == e.state = "idle"

\* ------------------------------------------------------------------- Voice
\* 2^(k/12) for k in 0..11, in thousandths.
SemitoneRatio == <<1000, 1059, 1122, 1189, 1260, 1335, 1414, 1498, 1587, 1682, 1782, 1888>>

RECURSIVE Pow2(_)
Pow2(n) == IF n <= 0 THEN 1 ELSE 2 * Pow2(n - 1)

\* midiToFreq(midi) / midiToFreq(A4_MIDI) = 2^((midi - 69) / 12), in units of
\* 1/PTR_ONE, rounded to the nearest unit.
PlaybackRate(midi) ==
    LET k == midi - 69
        oct == k \div 12
        r == SemitoneRatio[(k % 12) + 1]
        num == PTR_ONE * r * Pow2(oct)
        den == 1000 * Pow2(0 - oct)
    IN  (2 * num + den) \div (2 * den)

MVoiceNew ==
    [midiNote |-> 0, playbackRate |-> PTR_ONE, samplePosition |-> 0,
     loopStart |-> 0, loopEnd |-> 0, envelope |-> MEnvNew, age |-> 0]

\* A start that leaves the age counter running.
MVoiceStartKeepAge(v, midi, buffer) ==
    [v EXCEPT !.midiNote = midi,
              !.playbackRate = PlaybackRate(midi),
              !.samplePosition = 0,
              !.loopStart = 0,
              !.loopEnd = IF buffer.isNull THEN 0 ELSE Len(buffer.frames) - 1,
              !.envelope = MEnvNoteOn(v.envelope)]

\* Voice.start(note, sampleBuffer)
MVoiceStart(v, midi, buffer) ==
    [v EXCEPT !.midiNote = midi,
              !.playbackRate = PlaybackRate(midi),
              !.samplePosition = 0,
              !.loopStart = 0,
              !.loopEnd = IF buffer.isNull THEN 0 ELSE Len(buffer.frames) - 1,
              !.envelope = MEnvNoteOn(v.envelope),
              !.age = 0]

MVoiceStop(v) == [v EXCEPT !.envelope = MEnvNoteOff(v.envelope)]

MVoiceIsIdle(v) == MEnvIsIdle(v.envelope)

\* process() without the !sampleBuffer test: the read sampleBuffer[i0] of a
\* null buffer throws, and the block is left as it was.
MVoiceProcessNoBufferGuard(v, buffer) ==
    IF MVoiceIsIdle(v)
    THEN [voice |-> v, out |-> Known(0)]
    ELSE IF buffer.isNull
    THEN [voice |-> v, out |-> Unknown]
    ELSE
      LET env == MEnvProcess(v.envelope)
          sampleValue == Interpolate(buffer.frames, v.samplePosition)
          pos == v.samplePosition + v.playbackRate
          wrapped == IF pos >= v.loopEnd * PTR_ONE
                     THEN pos - (v.loopEnd - v.loopStart) * PTR_ONE
                     ELSE pos
      IN  [voice |-> [v EXCEPT !.envelope = env, !.samplePosition = wrapped,
                               !.age = v.age + 1],
           out |-> Known(sampleValue * env.value)]

\* Voice.process(sampleBuffer): the voice after the call and the value returned,
\* in units of 1/(PTR_ONE * LEVEL_ONE).
MVoiceProcess(v, buffer) ==
    IF MVoiceIsIdle(v) \/ buffer.isNull \/ Len(buffer.frames) = 0
    THEN [voice |-> v, out |-> Known(0)]
    ELSE
      LET env == MEnvProcess(v.envelope)
          sampleValue == Interpolate(buffer.frames, v.samplePosition)
          pos == v.samplePosition + v.playbackRate
          wrapped == IF pos >= v.loopEnd * PTR_ONE
                     THEN pos - (v.loopEnd - v.loopStart) * PTR_ONE
                     ELSE pos
      IN  [voice |-> [v EXCEPT !.envelope = env, !.samplePosition = wrapped,
                               !.age = v.age + 1],
           out |-> Known(sampleValue * env.value)]

\* ------------------------------------------------------ MiniSynthProcessor
VARIABLES
    sampleBuffer,  \* MiniSynthProcessor.sampleBuffer
    miniVoices,    \* MiniSynthProcessor.voices
    adsrParams     \* MiniSynthProcessor.adsrParams

miniVars == <<sampleBuffer, miniVoices, adsrParams>>

\* updateAllVoiceEnvelopes
UpdateAllVoiceEnvelopes(vs, sr, p) ==
    [i \in 1..Len(vs) |->
        [vs[i] EXCEPT !.envelope =
            MEnvSetParams(@, sr, p.attack, p.decay, p.sustain, p.release)]]

\* The state the MiniSynthProcessor constructor leaves.
MiniInit ==
    /\ sampleBuffer = NullData
    /\ adsrParams = [attack |-> 50, decay |-> 100,
                     sustain |-> (LEVEL_ONE \div 10) * 8, release |-> 500]
    /\ miniVoices = UpdateAllVoiceEnvelopes([i \in 1..MAX_VOICES |-> MVoiceNew], sampleRate, adsrParams)

\* this.voices.find(v => v.isIdle()), 0 when there is none.
FirstIdle(vs) ==
    IF \E i \in 1..Len(vs) : MVoiceIsIdle(vs[i])
    THEN CHOOSE i \in 1..Len(vs) :
             MVoiceIsIdle(vs[i]) /\ \A j \in 1..(i - 1) : ~MVoiceIsIdle(vs[j])
    ELSE 0

\* A reduce that takes the current voice when it is as old as the oldest so far.
RECURSIVE OldestLast(_, _)
OldestLast(vs, n) ==
    IF n = 1 THEN 1
    ELSE LET o == OldestLast(vs, n - 1)
         IN  IF vs[n].age >= vs[o].age THEN n ELSE o

\* this.voices.reduce((oldest, current) => current.age > oldest.age ? current : oldest),
\* over the first n voices.
RECURSIVE Oldest(_, _)
Oldest(vs, n) ==
    IF n = 1 THEN 1
    ELSE LET o == Oldest(vs, n - 1)
         IN  IF vs[n].age > vs[o].age THEN n ELSE o

\* playNote: an idle voice first, else the oldest one.
MAllocate(vs) == IF FirstIdle(vs) # 0 THEN FirstIdle(vs) ELSE Oldest(vs, Len(vs))

\* A playNote that also stops every other voice (one note at a time).
MPlayNoteVoicesMono(vs, buffer, midi) ==
    [i \in 1..Len(vs) |->
        IF i = MAllocate(vs) THEN MVoiceStart(vs[i], midi, buffer) ELSE MVoiceStop(vs[i])]

MPlayNoteVoices(vs, buffer, midi) ==
    [vs EXCEPT ![MAllocate(vs)] = MVoiceStart(@, midi, buffer)]

MStopNoteVoices(vs, midi) ==
    [i \in 1..Len(vs) |->
        IF vs[i].midiNote = midi /\ ~MVoiceIsIdle(vs[i]) THEN MVoiceStop(vs[i]) ELSE vs[i]]

MLoadSampleData(m) ==
    /\ m.type = "load-sample-data"
    /\ sampleBuffer' = m.channels0
    /\ UNCHANGED <<miniVoices, adsrParams>>

MPlayNote(m) ==
    /\ m.type = "noteOn"
    /\ miniVoices' = MPlayNoteVoices(miniVoices, sampleBuffer, m.midi)
    /\ UNCHANGED <<sampleBuffer, adsrParams>>

MStopNote(m) ==
    /\ m.type = "noteOff"
    /\ miniVoices' = MStopNoteVoices(miniVoices, m.midi)
    /\ UNCHANGED <<sampleBuffer, adsrParams>>

\* updateParam: only the names adsrParams owns.
MUpdateParam(m) ==
    /\ m.type = "param"
    /\ IF m.name \in DOMAIN adsrParams
       THEN /\ adsrParams' = [adsrParams EXCEPT ![m.name] = m.value]
            /\ miniVoices' = UpdateAllVoiceEnvelopes(miniVoices, sampleRate, adsrParams')
       ELSE UNCHANGED <<adsrParams, miniVoices>>
    /\ UNCHANGED sampleBuffer

\* A type no branch handles (load-sample-meta, dispose, ...).
MIgnored(m) ==
    /\ m.type \notin {"load-sample-data", "noteOn", "noteOff", "param"}
    /\ UNCHANGED miniVars

MHandleMessage(m) ==
    \/ MLoadSampleData(m)
    \/ MPlayNote(m)
    \/ MStopNote(m)
    \/ MUpdateParam(m)
    \/ MIgnored(m)

\* Math.tanh(x) for x >= 0 in thousandths: 1 from TANH_SATURATED on, below it
\* (e^2x - 1) / (e^2x + 1) with e^2x taken as (1 + 2x/16)^16.
TANH_ONE == 1000
TANH_SATURATED == 4000
Tanh(x) ==
    IF x >= TANH_SATURATED THEN TANH_ONE
    ELSE LET b1  == TANH_ONE + x \div 8
             b2  == (b1 * b1) \div TANH_ONE
             b4  == (b2 * b2) \div TANH_ONE
             b8  == (b4 * b4) \div TANH_ONE
             b16 == (b8 * b8) \div TANH_ONE
         IN  ((b16 - TANH_ONE) * TANH_ONE) \div (b16 + TANH_ONE)

\* sampleSum * 0.8 written out as it is, in units of 1/LEVEL_ONE.
MOutputStageLinear(val) ==
    IF val.k THEN Known((val.v * 8) \div (10 * PTR_ONE)) ELSE Unknown

\* Math.tanh(sampleSum * 0.8), in units of 1/LEVEL_ONE; tanh is odd.
MOutputStage(val) ==
    IF val.k
    THEN LET a == IF val.v < 0 THEN 0 - val.v ELSE val.v
             x == ((a \div ((PTR_ONE * LEVEL_ONE) \div TANH_ONE)) * 8) \div 10
             t == Tanh(x) * (LEVEL_ONE \div TANH_ONE)
         IN  Known(IF val.v < 0 THEN 0 - t ELSE t)
    ELSE Unknown

\* process(), one iteration of the sample loop (the iteration that fills the
\* block returns true). The age counters are capped at MaxAge.
MProcessSample ==
    /\ \A i \in 1..Len(miniVoices) :
          MVoiceProcess(miniVoices[i], sampleBuffer).voice.age <= MaxAge
    /\ LET rs == [i \in 1..Len(miniVoices) |-> MVoiceProcess(miniVoices[i], sampleBuffer)]
       IN  /\ miniVoices' = [i \in 1..Len(miniVoices) |-> rs[i].voice]
           /\ out' = MOutputStage(SumOut(rs, Len(miniVoices)))
    /\ frame' = IF frame + 1 >= RENDER_QUANTUM THEN 0 ELSE frame + 1
    /\ UNCHANGED <<sampleBuffer, adsrParams>>

\* ============================================== state beside the processors
\* A single envelope driven call by call: envS, envM (one ADSREnvelope of each
\* processor), envRelease (the release time a followed release runs with, ms),
\* releaseCalls (process() calls since noteOff; -1 when no release is followed),
\* envAttack (the attack time a followed attack runs with, ms), attackCalls
\* (process() calls since noteOn; -1 when no attack is followed).
VARIABLES envS, envM, envRelease, releaseCalls, envAttack, attackCalls
\* MiniSynthNode: node (this.node is set), ready (_ready), pendingMessages,
\* port (the messages handed to node.port.postMessage, in order), queued (the
\* messages ever put in _pendingMessages, in order), initStage (init(): "new",
\* "waiting" with the node created and the 2 s timer armed, "resolved",
\* "failed" when addModule threw).
VARIABLES node, ready, pendingMessages, port, queued, initStage
\* The direct-worklet page: uiEngine ("none": audioCtx unset, "adding":
\* audioCtx set and addModule in flight, synthNode unset, "fetching": node
\* created and WASM fetch in flight, "initialized", "failed"), uiIsReady
\* (isReady), readySeen (ready messages handled), uiAudioBuffer (channel 0 of
\* audioBuffer), uiFiles (per file change event the stage of its handler:
\* "none" not fired, "init" awaiting initAudioEngine, "decode" awaiting the
\* decoding, "done"), notesPosted (noteOn and noteOff messages posted by
\* playNote and stopNote, history).
VARIABLES uiEngine, uiIsReady, readySeen, uiAudioBuffer, uiFiles, notesPosted
\* For each voice slot, the sample buffer that was loaded when the voice was
\* last triggered (history kept beside the processor's own state).
VARIABLES triggerBuffer
\* Whether a dispose message has been handed to the processor (history).
VARIABLES disposed
\* The voices' return values of one rendered sample, chosen freely: per slot
\* isActive and out (in units of 1/(PTR_ONE * LEVEL_ONE)).
VARIABLES mix

envVars == <<envS, envM, envRelease, releaseCalls, envAttack, attackCalls>>
nodeVars == <<node, ready, pendingMessages, port, queued, initStage>>
uiVars == <<uiEngine, uiIsReady, readySeen, uiAudioBuffer, uiFiles, notesPosted>>
processorVars == <<variant, sampleRate, frame, out, synthVars, miniVars, triggerBuffer, disposed>>

\* ========================================================= a single envelope
MaxCalls == 5
ENV_ATTACKS == {50, 100}
ENV_DECAYS == {100}
ENV_RELEASES == {100, 200}
ENV_SUSTAINS == {LEVEL_ONE \div 2, LEVEL_ONE}

EnvInit ==
    /\ envS = SEnvNew(sampleRate)
    /\ envM = MEnvSetParams(MEnvNew, sampleRate, 50, 100, (LEVEL_ONE \div 10) * 8, 500)
    /\ envRelease = 500
    /\ releaseCalls = -1
    /\ envAttack = 50
    /\ attackCalls = -1

EnvLevel == IF variant = "synth" THEN envS.level ELSE envM.value
EnvState == IF variant = "synth" THEN envS.state ELSE envM.state

EnvSetParams(attacks) ==
    /\ \E a \in attacks, d \in ENV_DECAYS, s \in ENV_SUSTAINS, r \in ENV_RELEASES :
          IF variant = "synth"
          THEN /\ envS' = SEnvSetParams(envS, a, d, s, r)
               /\ envRelease' = envS'.releaseTime
               /\ envAttack' = envS'.attackTime
               /\ UNCHANGED envM
          ELSE /\ envM' = MEnvSetParams(envM, sampleRate, a, d, s, r)
               /\ envRelease' = r
               /\ envAttack' = a
               /\ UNCHANGED envS
    /\ releaseCalls' = -1
    /\ attackCalls' = -1
    /\ UNCHANGED <<processorVars, nodeVars, uiVars, mix>>

EnvNoteOn ==
    /\ IF variant = "synth"
       THEN envS' = SEnvNoteOn(envS) /\ UNCHANGED envM
       ELSE envM' = MEnvNoteOn(envM) /\ UNCHANGED envS
    /\ releaseCalls' = -1
    /\ attackCalls' = 0
    /\ UNCHANGED <<envRelease, envAttack>>
    /\ UNCHANGED <<processorVars, nodeVars, uiVars, mix>>

EnvNoteOff ==
    /\ IF variant = "synth"
       THEN envS' = SEnvNoteOff(envS) /\ UNCHANGED envM
       ELSE envM' = MEnvNoteOff(envM) /\ UNCHANGED envS
    /\ releaseCalls' = IF EnvState = "idle" /\ variant = "mini" THEN -1
                       ELSE IF EnvLevel > 0 /\ EnvLevel <= LEVEL_ONE THEN 0 ELSE -1
    /\ attackCalls' = -1
    /\ UNCHANGED <<envRelease, envAttack>>
    /\ UNCHANGED <<processorVars, nodeVars, uiVars, mix>>

EnvProcess ==
    /\ releaseCalls < MaxCalls
    /\ IF variant = "synth"
       THEN envS' = SEnvProcess(envS) /\ UNCHANGED envM
       ELSE envM' = MEnvProcess(envM) /\ UNCHANGED envS
    /\ releaseCalls' = IF releaseCalls >= 0 THEN releaseCalls + 1 ELSE -1
    /\ attackCalls' = IF attackCalls >= 0
                          /\ (IF variant = "synth" THEN envS'.state ELSE envM'.state) = "attack"
                      THEN attackCalls + 1 ELSE -1
    /\ UNCHANGED <<envRelease, envAttack>>
    /\ UNCHANGED <<processorVars, nodeVars, uiVars, mix>>

\* ============================================================= MiniSynthNode
\* mini-synth-node.js
MaxMessages == 3
NODE_PARAMS == {"filterCutoff"}

\* constructor
NodeNew ==
    /\ node = FALSE
    /\ ready = FALSE
    /\ pendingMessages = <<>>
    /\ port = <<>>
    /\ queued = <<>>
    /\ initStage = "new"

NodeRoom(n) == Len(port) + Len(queued) + n <= MaxMessages

\* init() up to the handshake promise: the node exists, its onmessage only
\* calls _handleMessage, the timer is armed. onReady is never attached.
NodeInit ==
    /\ initStage = "new"
    /\ \E added \in BOOLEAN :
          IF added
          THEN node' = TRUE /\ initStage' = "waiting"
          ELSE initStage' = "failed" /\ UNCHANGED node
    /\ UNCHANGED <<ready, pendingMessages, port, queued>>
    /\ UNCHANGED <<processorVars, envVars, uiVars, mix>>

\* A message from the processor (ready included): _handleMessage calls the
\* registered handlers and updates the param cache, nothing else.
NodeHandleMessage ==
    /\ node
    /\ UNCHANGED nodeVars
    /\ UNCHANGED <<processorVars, envVars, uiVars, mix>>

\* A fallback that resolves the promise without setting _ready.
NodeTimeoutUnready ==
    /\ initStage = "waiting"
    /\ initStage' = "resolved"
    /\ UNCHANGED <<node, ready, pendingMessages, port, queued>>
    /\ UNCHANGED <<processorVars, envVars, uiVars, mix>>

\* The 2 s fallback of init().
NodeTimeout ==
    /\ initStage = "waiting"
    /\ ready' = TRUE
    /\ initStage' = "resolved"
    /\ UNCHANGED <<node, pendingMessages, port, queued>>
    /\ UNCHANGED <<processorVars, envVars, uiVars, mix>>

\* postMessage(msg, transfer): the state after it, from state s.
NodePosted(s, msg) ==
    IF ~s.node \/ ~s.ready
    THEN [s EXCEPT !.pendingMessages = Append(@, msg), !.queued = Append(@, msg)]
    ELSE [s EXCEPT !.port = Append(@, msg)]

NodeState ==
    [node |-> node, ready |-> ready, pendingMessages |-> pendingMessages,
     port |-> port, queued |-> queued]

NodeBecomes(s) ==
    /\ node' = s.node
    /\ ready' = s.ready
    /\ pendingMessages' = s.pendingMessages
    /\ port' = s.port
    /\ queued' = s.queued
    /\ UNCHANGED initStage

NodePostMessage ==
    /\ NodeRoom(1)
    /\ \E t \in {"custom"} : NodeBecomes(NodePosted(NodeState, [type |-> t]))
    /\ UNCHANGED <<processorVars, envVars, uiVars, mix>>

NodeNoteOn ==
    /\ NodeRoom(1)
    /\ NodeBecomes(NodePosted(NodeState, [type |-> "noteOn"]))
    /\ UNCHANGED <<processorVars, envVars, uiVars, mix>>

NodeNoteOff ==
    /\ NodeRoom(1)
    /\ NodeBecomes(NodePosted(NodeState, [type |-> "noteOff"]))
    /\ UNCHANGED <<processorVars, envVars, uiVars, mix>>

\* setParam(name, value): the processors declare no AudioParam, so with a node
\* the value goes through postMessage; without one it is queued directly.
NodeSetParam ==
    /\ NodeRoom(1)
    /\ \E name \in NODE_PARAMS :
          IF ~node
          THEN NodeBecomes([NodeState EXCEPT
                   !.pendingMessages = Append(@, [type |-> "param"]),
                   !.queued = Append(@, [type |-> "param"])])
          ELSE NodeBecomes(NodePosted(NodeState, [type |-> "param"]))
    /\ UNCHANGED <<processorVars, envVars, uiVars, mix>>

\* loadSample: the meta message, then the data message. Both carry the same
\* transfer list: once the first is really posted the buffers are detached and
\* posting the second throws (caught and logged in postMessage).
NodeLoadSample ==
    /\ NodeRoom(2)
    /\ \E channels \in 0..1 :
          LET s1 == NodePosted(NodeState, [type |-> "load-sample-meta"])
          IN  IF ~node \/ ~ready \/ channels = 0
              THEN NodeBecomes(NodePosted(s1, [type |-> "load-sample-data"]))
              ELSE NodeBecomes(s1)
    /\ UNCHANGED <<processorVars, envVars, uiVars, mix>>

NodeDispose ==
    /\ NodeRoom(1)
    /\ port' = IF node THEN Append(port, [type |-> "dispose"]) ELSE port
    /\ node' = FALSE
    /\ ready' = FALSE
    /\ UNCHANGED <<pendingMessages, queued, initStage>>
    /\ UNCHANGED <<processorVars, envVars, uiVars, mix>>

\* ========================================================= the direct UI
\* main.js, second variant: initAudioEngine and its ready handler.
\* File change events followed (MaxFiles), note messages counted (MaxNotes).
MaxFiles == 2
MaxNotes == 2

UiInit ==
    /\ uiEngine = "none"
    /\ uiIsReady = FALSE
    /\ readySeen = 0
    /\ uiAudioBuffer = NullData
    /\ uiFiles = [h \in 1..MaxFiles |-> "none"]
    /\ notesPosted = 0

\* ============================================================ the processors
\* Input domains of the port messages.
\* data.loopStart, data.loopEnd pairs: the full buffer (a zero loopEnd reads as
\* 1), an empty region in the middle, a region starting at the buffer's end.
LOOPS == { <<0, 0>>, <<1, 1>>, <<NORM_ONE, 0>> }
\* param events sent to SynthProcessor (name, value).
PARAM_EVENTS == { <<"release", 10>>, <<"filterCutoff", 30>> }
\* param events sent to MiniSynthProcessor (name, value).
MINI_PARAM_EVENTS == { <<"release", 10>>, <<"filterCutoff", 30>> }

vars == <<processorVars, envVars, nodeVars, uiVars, mix>>

\* The worklet is built from one of the two processor modules. A low sample
\* rate keeps the default envelope a few samples long (50 ms attack: 1 sample,
\* 100 ms decay: 2, 500 ms release: 10).
Init ==
    /\ variant \in {"synth", "mini"}
    /\ sampleRate = 20
    /\ frame = 0
    /\ out = Known(0)
    /\ SynthInit
    /\ MiniInit
    /\ EnvInit
    /\ NodeNew
    /\ UiInit
    /\ triggerBuffer = [i \in 1..MAX_VOICES |-> NullData]
    /\ disposed = FALSE
    /\ mix = [i \in 1..MAX_VOICES |-> [isActive |-> FALSE, out |-> Known(0)]]

\* A message event runs between two process() calls.
SynthTurnMidBlock == variant = "synth"

SynthTurn == variant = "synth" /\ frame = 0
MiniTurn == variant = "mini" /\ frame = 0

SynthLoadSample(samples) ==
    /\ SynthTurn
    /\ \E b \in {NullData} \cup {Float32Array(f) : f \in samples} :
          SHandleMessage([type |-> "load-sample", sampleData |-> b])
    /\ UNCHANGED <<variant, sampleRate, frame, out, miniVars, envVars, nodeVars, uiVars, triggerBuffer, disposed, mix>>

SynthParam(events) ==
    /\ SynthTurn
    /\ \E e \in events :
          SHandleMessage([type |-> "param", name |-> e[1], value |-> e[2]])
    /\ UNCHANGED <<variant, sampleRate, frame, out, miniVars, envVars, nodeVars, uiVars, triggerBuffer, disposed, mix>>

SynthNoteOn(notes, pitches, loops) ==
    /\ SynthTurn
    /\ \E n \in notes, pf \in pitches, lp \in loops :
          SHandleMessage([type |-> "noteOn", note |-> n, pitchFactor |-> pf,
                          loopStart |-> lp[1], loopEnd |-> lp[2]])
    /\ triggerBuffer' = IF sampleData.isNull THEN triggerBuffer
                        ELSE [triggerBuffer EXCEPT ![SAllocate(voices)] = sampleData]
    /\ UNCHANGED <<variant, sampleRate, frame, out, miniVars, envVars, nodeVars, uiVars, disposed, mix>>

SynthNoteOff(notes) ==
    /\ SynthTurn
    /\ \E n \in notes : SHandleMessage([type |-> "noteOff", note |-> n])
    /\ UNCHANGED <<variant, sampleRate, frame, out, miniVars, envVars, nodeVars, uiVars, triggerBuffer, disposed, mix>>

SynthInitWasm(max) ==
    /\ SynthTurn
    /\ wasmPending + readyPosted < max
    /\ SHandleMessage([type |-> "init-wasm"])
    /\ UNCHANGED <<variant, sampleRate, frame, out, miniVars, envVars, nodeVars, uiVars, triggerBuffer, disposed, mix>>

SynthOther ==
    /\ SynthTurn
    /\ \E t \in {"", "load-sample-data"} : SHandleMessage([type |-> t])
    /\ UNCHANGED <<variant, sampleRate, frame, out, miniVars, envVars, nodeVars, uiVars, triggerBuffer, disposed, mix>>

\* A dispose message (MiniSynthNode.dispose posts one) reaches the processor.
SynthDispose ==
    /\ SynthTurn
    /\ SHandleMessage([type |-> "dispose"])
    /\ disposed' = TRUE
    /\ UNCHANGED <<variant, sampleRate, frame, out, miniVars, envVars, nodeVars, uiVars, triggerBuffer, mix>>

SynthWasmSettled ==
    /\ SynthTurn
    /\ SWasmSettled
    /\ UNCHANGED <<variant, sampleRate, frame, out, miniVars, envVars, nodeVars, uiVars, triggerBuffer, disposed, mix>>

SynthProcessSilent ==
    /\ variant = "synth"
    /\ SProcessSilent
    /\ UNCHANGED <<variant, sampleRate, miniVars, envVars, nodeVars, uiVars, triggerBuffer, disposed, mix>>

SynthProcessSample ==
    /\ variant = "synth"
    /\ SProcessSample
    /\ UNCHANGED <<variant, sampleRate, miniVars, envVars, nodeVars, uiVars, triggerBuffer, disposed, mix>>

MiniLoadSampleData(samples) ==
    /\ MiniTurn
    /\ \E b \in {NullData} \cup {Float32Array(f) : f \in samples} :
          MHandleMessage([type |-> "load-sample-data", channels0 |-> b])
    /\ UNCHANGED <<variant, sampleRate, frame, out, synthVars, envVars, nodeVars, uiVars, triggerBuffer, disposed, mix>>

MiniNoteOn(notes) ==
    /\ MiniTurn
    /\ \E n \in notes : MHandleMessage([type |-> "noteOn", midi |-> n])
    /\ triggerBuffer' = [triggerBuffer EXCEPT ![MAllocate(miniVoices)] = sampleBuffer]
    /\ UNCHANGED <<variant, sampleRate, frame, out, synthVars, envVars, nodeVars, uiVars, disposed, mix>>

MiniNoteOff(notes) ==
    /\ MiniTurn
    /\ \E n \in notes : MHandleMessage([type |-> "noteOff", midi |-> n])
    /\ UNCHANGED <<variant, sampleRate, frame, out, synthVars, envVars, nodeVars, uiVars, triggerBuffer, disposed, mix>>

MiniParam(events) ==
    /\ MiniTurn
    /\ \E e \in events :
          MHandleMessage([type |-> "param", name |-> e[1], value |-> e[2]])
    /\ UNCHANGED <<variant, sampleRate, frame, out, synthVars, envVars, nodeVars, uiVars, triggerBuffer, disposed, mix>>

MiniOther ==
    /\ MiniTurn
    /\ \E t \in {"load-sample-meta", "load-sample"} : MHandleMessage([type |-> t])
    /\ UNCHANGED <<variant, sampleRate, frame, out, synthVars, envVars, nodeVars, uiVars, triggerBuffer, disposed, mix>>

MiniDispose ==
    /\ MiniTurn
    /\ MHandleMessage([type |-> "dispose"])
    /\ disposed' = TRUE
    /\ UNCHANGED <<variant, sampleRate, frame, out, synthVars, envVars, nodeVars, uiVars, triggerBuffer, mix>>

MiniProcessSample ==
    /\ variant = "mini"
    /\ MProcessSample
    /\ UNCHANGED <<variant, sampleRate, synthVars, envVars, nodeVars, uiVars, triggerBuffer, disposed, mix>>

Next ==
    \/ SynthLoadSample({SAMPLE_A})
    \/ SynthParam(PARAM_EVENTS)
    \/ SynthNoteOn(NOTES, PITCHES, LOOPS)
    \/ SynthNoteOff(NOTES)
    \/ SynthInitWasm(1)
    \/ SynthOther
    \/ SynthWasmSettled
    \/ SynthProcessSilent
    \/ SynthProcessSample
    \/ MiniLoadSampleData({SAMPLE_A})
    \/ MiniNoteOn(MIDI_NOTES)
    \/ MiniNoteOff(MIDI_NOTES)
    \/ MiniParam(MINI_PARAM_EVENTS)
    \/ MiniOther
    \/ MiniProcessSample

Spec == Init /\ [][Next]_vars

\* ==================================================================== claims
SActive == {i \in 1..Len(voices) : voices[i].isActive}
MActive == {i \in 1..Len(miniVoices) : ~MVoiceIsIdle(miniVoices[i])}
SAllBusy == \A i \in 1..Len(voices) : voices[i].isActive
MAllBusy == \A i \in 1..Len(miniVoices) : ~MVoiceIsIdle(miniVoices[i])

\* Samples a SynthProcessor voice has rendered since its trigger (the cursor
\* starts at loopStart and advances by pitchFactor per sample).
SAge(v) == (v.samplePtr - v.loopStart * PTR_ONE) \div v.pitchFactor

\* C1: in every reachable state the pool holds exactly the MAX_VOICES voices the
\* constructor built, so at most MAX_VOICES voices are active at once.
C1_PoolBounded ==
    /\ Len(voices) = MAX_VOICES
    /\ Len(miniVoices) = MAX_VOICES
    /\ Cardinality(SActive) <= MAX_VOICES
    /\ Cardinality(MActive) <= MAX_VOICES

\* C1 witness: every voice of the pool is sounding, in the middle of a block.
C1_AllVoicesSounding ==
    /\ variant = "synth" /\ SAllBusy /\ frame > 0
    /\ \A i \in 1..Len(voices) : SAge(voices[i]) > 0

\* The noteOn / noteOff messages of the two processors.
SNoteOnMsgs ==
    {[type |-> "noteOn", note |-> n, pitchFactor |-> pf, loopStart |-> lp[1], loopEnd |-> lp[2]] :
        n \in NOTES, pf \in PITCHES, lp \in LOOPS}
MNoteOnMsgs == {[type |-> "noteOn", midi |-> n] : n \in MIDI_NOTES}

\* C3: allocation takes an inactive voice whenever there is one, and with every
\* voice active it takes a voice of the greatest age.
C3_StealsOldest ==
    /\ variant = "synth" =>
         LET a == SAllocate(voices)
         IN  /\ ~SAllBusy => ~voices[a].isActive
             /\ SAllBusy => \A j \in 1..Len(voices) : SAge(voices[a]) >= SAge(voices[j])
    /\ variant = "mini" =>
         LET a == MAllocate(miniVoices)
         IN  /\ ~MAllBusy => MVoiceIsIdle(miniVoices[a])
             /\ MAllBusy => \A j \in 1..Len(miniVoices) :
                                miniVoices[a].age >= miniVoices[j].age

\* C4: a noteOff for note n puts every active voice bound to n into release and
\* changes no voice bound to another note.
C4_NoteOffReleasesAll ==
    [][/\ \A n \in NOTES :
            (SynthTurn /\ SNoteOff([type |-> "noteOff", note |-> n])) =>
                \A i \in 1..Len(voices) :
                    /\ (voices[i].isActive /\ voices[i].note = n)
                           => voices'[i].envelope.state = "release"
                    /\ voices[i].note # n => voices'[i] = voices[i]
       /\ \A n \in MIDI_NOTES :
            (MiniTurn /\ MStopNote([type |-> "noteOff", midi |-> n])) =>
                \A i \in 1..Len(miniVoices) :
                    /\ (~MVoiceIsIdle(miniVoices[i]) /\ miniVoices[i].midiNote = n)
                           => miniVoices'[i].envelope.state = "release"
                    /\ miniVoices[i].midiNote # n => miniVoices'[i] = miniVoices[i]
      ]_vars

\* C7: a noteOn handled with a sample loaded and every voice busy re-binds
\* exactly one voice: it carries the new note, is active, in attack, with its
\* cursor at the region start, and the other voices are unchanged.
C7_BusyNoteOnSteals ==
    [][/\ \A d \in SNoteOnMsgs :
            (SynthTurn /\ SNoteOn(d) /\ ~sampleData.isNull /\ SAllBusy) =>
                \E i \in 1..Len(voices) :
                    /\ voices'[i].note = d.note
                    /\ voices'[i].isActive
                    /\ voices'[i].envelope.state = "attack"
                    /\ voices'[i].samplePtr = voices'[i].loopStart * PTR_ONE
                    /\ \A j \in (1..Len(voices)) \ {i} : voices'[j] = voices[j]
       /\ \A m \in MNoteOnMsgs :
            (MiniTurn /\ MPlayNote(m) /\ ~sampleBuffer.isNull /\ MAllBusy) =>
                \E i \in 1..Len(miniVoices) :
                    /\ miniVoices'[i].midiNote = m.midi
                    /\ ~MVoiceIsIdle(miniVoices'[i])
                    /\ miniVoices'[i].envelope.state = "attack"
                    /\ miniVoices'[i].samplePosition = miniVoices'[i].loopStart * PTR_ONE
                    /\ \A j \in (1..Len(miniVoices)) \ {i} : miniVoices'[j] = miniVoices[j]
      ]_vars

\* C7 witness: every voice is busy with a sample loaded, and one of them has
\* just been triggered (cursor at the region start, attack) beside a voice that
\* has rendered since its own trigger.
C7_StolenVoiceRestarted ==
    /\ variant = "synth" /\ ~sampleData.isNull /\ SAllBusy /\ isReady
    /\ voices[1].envelope.state = "attack" /\ voices[1].envelope.level = 0
    /\ voices[1].samplePtr = voices[1].loopStart * PTR_ONE
    /\ \E j \in 2..Len(voices) : SAge(voices[j]) > 0

\* C8: a noteOn handled while no sample is loaded changes no voice.
C8_NoteOnWithoutSampleIsNoOp ==
    [][/\ \A d \in SNoteOnMsgs :
            (SynthTurn /\ SNoteOn(d) /\ sampleData.isNull) => voices' = voices
       /\ \A m \in MNoteOnMsgs :
            (MiniTurn /\ MPlayNote(m) /\ sampleBuffer.isNull) => miniVoices' = miniVoices
      ]_vars

\* C10: triggering a voice puts its cursor at loopStart, zeroes its filter
\* history, puts its envelope in attack and marks it active (Voice.noteOn), and
\* puts the cursor at loopStart, the envelope in attack and the age at 0
\* (Voice.start), whatever the voice was doing.
C10_TriggerResetsVoice ==
    [][/\ \A d \in SNoteOnMsgs :
            (SynthTurn /\ SNoteOn(d) /\ ~sampleData.isNull) =>
                LET w == voices'[SAllocate(voices)]
                IN  /\ w.samplePtr = w.loopStart * PTR_ONE
                    /\ w.filter = BiquadReset
                    /\ w.envelope.state = "attack"
                    /\ w.isActive
       /\ \A m \in MNoteOnMsgs :
            (MiniTurn /\ MPlayNote(m)) =>
                LET w == miniVoices'[MAllocate(miniVoices)]
                IN  /\ w.samplePosition = w.loopStart * PTR_ONE
                    /\ w.envelope.state = "attack"
                    /\ ~MVoiceIsIdle(w)
                    /\ w.age = 0
      ]_vars

\* C10 witness: a voice that was triggered sits beside an older voice whose
\* filter history is not zero, every voice sounding: a trigger of a used voice.
C10_RestartedBesideSounding ==
    /\ variant = "synth" /\ SAllBusy
    /\ voices[1].samplePtr = voices[1].loopStart * PTR_ONE
    /\ voices[1].filter = BiquadReset
    /\ voices[1].envelope.state = "attack"
    /\ voices[2].filter # BiquadReset
    /\ voices[2].note # voices[1].note

\* Sample replacement: buffers of several lengths, a pitch factor below 1 and
\* a region that starts at the end of the buffer.
SAMPLE_C == <<1>>
LOAD_NOTES == {60}
LOAD_PITCHES == {0, PTR_ONE \div 2}
LOAD_LOOPS == { <<0, 0>>, <<NORM_ONE, 0>> }

NextLoad ==
    \/ SynthLoadSample({SAMPLE_A, SAMPLE_B})
    \/ SynthNoteOn(LOAD_NOTES, LOAD_PITCHES, LOAD_LOOPS)
    \/ SynthNoteOff(LOAD_NOTES)
    \/ SynthInitWasm(1)
    \/ SynthWasmSettled
    \/ SynthProcessSilent
    \/ SynthProcessSample
    \/ MiniLoadSampleData({SAMPLE_A, SAMPLE_B, SAMPLE_C})
    \/ MiniNoteOn(MIDI_NOTES)
    \/ MiniNoteOff(MIDI_NOTES)
    \/ MiniProcessSample

SpecLoad == Init /\ [][NextLoad]_vars

\* C2: after every sample advance, each voice that is still active has its
\* cursor inside [0, buffer.length) of the buffer loaded at that time.
C2_CursorsInBuffer ==
    [][/\ SynthProcessSample =>
            \A i \in 1..Len(voices) :
                voices'[i].isActive =>
                    /\ voices'[i].samplePtr >= 0
                    /\ voices'[i].samplePtr < Len(sampleData.frames) * PTR_ONE
       /\ (MiniProcessSample /\ ~sampleBuffer.isNull /\ Len(sampleBuffer.frames) >= 1) =>
            \A i \in 1..Len(miniVoices) :
                ~MVoiceIsIdle(miniVoices'[i]) =>
                    /\ miniVoices'[i].samplePosition >= 0
                    /\ miniVoices'[i].samplePosition < Len(sampleBuffer.frames) * PTR_ONE
      ]_vars

\* ------------------------------------------------------------ envelope runs
NextEnv ==
    \/ EnvSetParams(ENV_ATTACKS)
    \/ EnvNoteOn
    \/ EnvNoteOff
    \/ EnvProcess

SpecEnv == Init /\ [][NextEnv]_vars

\* C9: once release is applied at a level in (0, 1], every process() call
\* leaves the level no higher, and after releaseTime x sampleRate calls the
\* envelope is idle at level 0.
C9_ReleaseReachesZeroInTime ==
    /\ [][(EnvProcess /\ releaseCalls >= 0) => EnvLevel' <= EnvLevel]_vars
    /\ []((releaseCalls >= 0 /\ releaseCalls * 1000 >= envRelease * sampleRate)
             => (EnvState = "idle" /\ EnvLevel = 0))

\* ------------------------------------------------------- MiniSynthNode runs
NextNode ==
    \/ NodeInit
    \/ NodeHandleMessage
    \/ NodeTimeout
    \/ NodePostMessage
    \/ NodeNoteOn
    \/ NodeNoteOff
    \/ NodeSetParam
    \/ NodeLoadSample
    \/ NodeDispose

SpecNode == Init /\ [][NextNode]_vars

\* C5: a message passed to the node before it is ready stays queued until the
\* node is ready, and once it is ready the queued messages have been delivered
\* to the processor, once each, in arrival order, ahead of any later message.
C5_QueuedDeliveredInOrder ==
    /\ ~ready => pendingMessages = queued
    /\ (ready /\ node) =>
          /\ Len(port) >= Len(queued)
          /\ SubSeq(port, 1, Len(queued)) = queued

\* ------------------------------------------------------- the ready handshake
\* initAudioEngine up to its first await: audioCtx is set first, so a failure
\* of addModule or of the node's construction is never retried.
UiInitAudioEngine ==
    /\ variant = "synth"
    /\ uiEngine = "none"
    /\ uiEngine' = "adding"
    /\ UNCHANGED <<uiIsReady, readySeen, uiAudioBuffer, uiFiles, notesPosted,
                   processorVars, envVars, nodeVars, mix>>

\* addModule settles: the node is created and its onmessage hooked, or the
\* catch block is reached with synthNode unset.
UiModuleAdded ==
    /\ variant = "synth"
    /\ uiEngine = "adding"
    /\ \E ok \in BOOLEAN : uiEngine' = IF ok THEN "fetching" ELSE "failed"
    /\ UNCHANGED <<uiIsReady, readySeen, uiAudioBuffer, uiFiles, notesPosted,
                   processorVars, envVars, nodeVars, mix>>

\* The fetch of PhaseVocoderModule.wasm settles: init-wasm is posted only for
\* an ok response.
UiWasmFetched ==
    /\ SynthTurn
    /\ uiEngine = "fetching"
    /\ \E ok \in BOOLEAN :
          IF ok THEN SHandleMessage([type |-> "init-wasm"]) ELSE UNCHANGED synthVars
    /\ uiEngine' = "initialized"
    /\ UNCHANGED <<uiIsReady, readySeen, uiAudioBuffer, uiFiles, notesPosted,
                   variant, sampleRate, frame, out, miniVars,
                   envVars, nodeVars, triggerBuffer, disposed, mix>>

\* synthNode.port.onmessage for a ready message; the param messages it posts
\* reach the processor as param events.
UiOnReady ==
    /\ variant = "synth"
    /\ readySeen < readyPosted
    /\ uiIsReady' = TRUE
    /\ readySeen' = readySeen + 1
    /\ UNCHANGED <<uiEngine, uiAudioBuffer, uiFiles, notesPosted,
                   processorVars, envVars, nodeVars, mix>>

WASM_NOTES == {60}

NextWasm ==
    \/ UiInitAudioEngine
    \/ UiModuleAdded
    \/ UiWasmFetched
    \/ UiOnReady
    \/ SynthInitWasm(MaxWasm)
    \/ SynthWasmSettled
    \/ SynthLoadSample({SAMPLE_A})
    \/ SynthNoteOn(WASM_NOTES, {0}, {<<0, 0>>})
    \/ SynthNoteOff(WASM_NOTES)
    \/ SynthProcessSilent
    \/ SynthProcessSample

\* Pending callbacks and port messages run between render quanta.
SpecWasm ==
    /\ Init
    /\ [][NextWasm]_vars
    /\ SF_vars(UiModuleAdded)
    /\ SF_vars(UiWasmFetched)
    /\ SF_vars(SynthWasmSettled)
    /\ WF_vars(UiOnReady)

\* C6: the processor posts ready exactly once: never a second time, however
\* many init-wasm messages arrive, and eventually once the page has
\* initialized the engine, whether or not the WASM module could be loaded.
C6_ReadyExactlyOnce ==
    /\ [](readyPosted <= 1)
    /\ (uiEngine = "initialized") ~> (readyPosted >= 1)

\* ------------------------------------------------------------ one-shot runs
\* A voice triggered over the whole of the loaded buffer at pitch factor pf.
SFullBuffer(v, pf) ==
    /\ v.isActive
    /\ v.loopStart = 0
    /\ v.loopEnd = Len(sampleData.frames) - 1
    /\ v.pitchFactor = pf

\* C11: a one-shot voice triggered over the full buffer at pitch factor 1.0
\* renders every frame: its k-th sample is frame k-1 scaled by the envelope
\* (through pass-through filter taps), and it is still active until L samples
\* have been rendered.
C11_RendersEveryFrame ==
    [][SynthProcessSample =>
          \A i \in 1..Len(voices) :
              LET v == voices[i]
                  k == SAge(v)
                  r == SVoiceProcess(v, sampleData.frames, filterCoeffs)
              IN  (SFullBuffer(v, PTR_ONE) /\ r.voice.envelope.state # "idle") =>
                      /\ (k + 1 < Len(sampleData.frames)) => voices'[i].isActive
                      /\ (~filterCoeffs.lowpass /\ k < Len(sampleData.frames)) =>
                            r.out = Known(FrameAt(sampleData.frames, k) * PTR_ONE
                                          * r.voice.envelope.level)
      ]_vars

\* C12: a one-shot voice is deactivated by the first advance that brings its
\* cursor to or past loopEnd, so an active voice's cursor is below loopEnd; a
\* voice started at loopStart = 0 with pitch factor 2.0 is active for fewer
\* than ceil((loopEnd - loopStart) / 2) rendered samples.
C12_OneShotStops ==
    \A i \in 1..Len(voices) :
        LET v == voices[i]
        IN  v.isActive =>
                /\ v.samplePtr < v.loopEnd * PTR_ONE
                /\ (v.pitchFactor = 2 * PTR_ONE /\ v.loopStart = 0) =>
                       2 * SAge(v) < v.loopEnd - v.loopStart

\* C12 witness: a voice triggered over the whole buffer at pitch factor 2.0 was
\* stopped by the cursor after ceil(loopEnd / 2) samples, its envelope still
\* sounding.
C12_StoppedAtLoopEnd ==
    \E i \in 1..Len(voices) :
        LET v == voices[i]
        IN  /\ ~v.isActive
            /\ v.pitchFactor = 2 * PTR_ONE
            /\ v.loopStart = 0
            /\ ~sampleData.isNull
            /\ v.loopEnd = Len(sampleData.frames) - 1
            /\ 2 * SAge(v) >= v.loopEnd
            /\ 2 * (SAge(v) - 1) < v.loopEnd
            /\ v.envelope.state \notin {"idle", "release"}

\* C13: in looping mode every rendered sample leaves the cursor of the voice
\* that rendered it inside its loop: loopStart <= cursor < loopEnd.
C13_LoopingCursorInLoop ==
    [][(MiniProcessSample /\ ~sampleBuffer.isNull /\ Len(sampleBuffer.frames) >= 1) =>
          \A i \in 1..Len(miniVoices) :
              ~MVoiceIsIdle(miniVoices[i]) =>
                  /\ miniVoices'[i].loopStart * PTR_ONE <= miniVoices'[i].samplePosition
                  /\ miniVoices'[i].samplePosition < miniVoices'[i].loopEnd * PTR_ONE
      ]_vars

\* C14: control events take effect only at block boundaries: a step taken
\* inside a block leaves the sample buffer, the parameter set, the filter
\* coefficients and the voice-to-note bindings as they were.
C14_EventsAtBlockBoundaries ==
    [][frame > 0 =>
          /\ sampleData' = sampleData
          /\ params' = params
          /\ filterCoeffs' = filterCoeffs
          /\ \A i \in 1..Len(voices) : voices'[i].note = voices[i].note
          /\ sampleBuffer' = sampleBuffer
          /\ adsrParams' = adsrParams
          /\ \A i \in 1..Len(miniVoices) : miniVoices'[i].midiNote = miniVoices[i].midiNote
      ]_vars

\* C14 witness: the renderer is inside a block, voices sounding, after a param
\* event and a sample load were handled.
C14_InsideBlock ==
    /\ variant = "synth"
    /\ frame > 0
    /\ SActive # {}
    /\ params.release = 10
    /\ ~sampleData.isNull

\* C15: a voice triggered before a load-sample keeps rendering the buffer it
\* was triggered on: each sample it renders is the sample it would render from
\* that buffer, until a later noteOn triggers it again.
C15_OldVoicesKeepOldBuffer ==
    [][/\ SynthProcessSample =>
            \A i \in 1..Len(voices) :
                voices[i].isActive =>
                    SVoiceProcess(voices[i], sampleData.frames, filterCoeffs)
                        = SVoiceProcess(voices[i], triggerBuffer[i].frames, filterCoeffs)
       /\ MiniProcessSample =>
            \A i \in 1..Len(miniVoices) :
                (~MVoiceIsIdle(miniVoices[i]) /\ ~triggerBuffer[i].isNull
                    /\ ~sampleBuffer.isNull) =>
                    MVoiceProcess(miniVoices[i], sampleBuffer)
                        = MVoiceProcess(miniVoices[i], triggerBuffer[i])
      ]_vars

\* ------------------------------------------------------------- dispose runs
NextDispose ==
    \/ SynthLoadSample({SAMPLE_A})
    \/ SynthNoteOn(WASM_NOTES, {0}, {<<0, 0>>})
    \/ SynthNoteOff(WASM_NOTES)
    \/ SynthParam(PARAM_EVENTS)
    \/ SynthInitWasm(1)
    \/ SynthWasmSettled
    \/ SynthDispose
    \/ SynthProcessSilent
    \/ SynthProcessSample
    \/ MiniLoadSampleData({SAMPLE_A})
    \/ MiniNoteOn({69})
    \/ MiniNoteOff({69})
    \/ MiniParam(MINI_PARAM_EVENTS)
    \/ MiniDispose
    \/ MiniProcessSample

SpecDispose == Init /\ [][NextDispose]_vars

\* C16: once dispose has reached the processor every voice is silenced:
\* no synth voice is active and no mini voice has a running envelope.
C16_DisposeSilences ==
    disposed =>
        /\ \A i \in 1..Len(voices) : ~voices[i].isActive
        /\ \A i \in 1..Len(miniVoices) : MVoiceIsIdle(miniVoices[i])

\* C17: with no sample buffer loaded every rendered sample of the block is 0,
\* whatever notes were triggered and whatever state the voices are in.
C17_NoSampleSilence ==
    [][/\ ((SynthProcessSilent \/ SynthProcessSample) /\ sampleData.isNull)
              => out' = Known(0)
       /\ (MiniProcessSample /\ sampleBuffer.isNull) => out' = Known(0)
      ]_vars

\* A block is being rendered without a buffer while a triggered voice's
\* envelope runs, and the sample written is 0.
C17_SilentWithRunningVoice ==
    /\ variant = "mini"
    /\ frame > 0
    /\ sampleBuffer.isNull
    /\ \E i \in 1..Len(miniVoices) : ~MVoiceIsIdle(miniVoices[i])
    /\ out = Known(0)

\* ------------------------------------------------------------ the mix stage
\* Voice return values: -3.0, -0.5, 0, 0.5, 3.0.
MIX_VALUES ==
    { 0 - 3 * PTR_ONE * LEVEL_ONE, 0 - (PTR_ONE * LEVEL_ONE) \div 2, 0,
      (PTR_ONE * LEVEL_ONE) \div 2, 3 * PTR_ONE * LEVEL_ONE }

\* The voices' contributions to one sample: val += v.process(...) for the
\* active voices (an idle mini voice returns 0).
MixContributions(mx) ==
    [i \in 1..Len(mx) |-> [out |-> IF mx[i].isActive THEN mx[i].out ELSE Known(0)]]

\* One iteration of the sample loop of process() with the voices' return
\* values given: the sum goes through the processor's output stage.
MixSample ==
    /\ \E mx \in [1..MAX_VOICES -> [isActive : BOOLEAN, out : {Known(x) : x \in MIX_VALUES}]] :
          /\ mix' = mx
          /\ out' = IF variant = "synth"
                    THEN SOutputStage(SumOut(MixContributions(mx), Len(mx)))
                    ELSE MOutputStage(SumOut(MixContributions(mx), Len(mx)))
    /\ UNCHANGED <<variant, sampleRate, frame, synthVars, miniVars, triggerBuffer,
                   disposed, envVars, nodeVars, uiVars>>

NextMix == MixSample

SpecMix == Init /\ [][NextMix]_vars

RECURSIVE MixSum(_, _)
MixSum(mx, n) ==
    IF n = 0 THEN 0
    ELSE MixSum(mx, n - 1) + (IF mx[n].isActive THEN mx[n].out.v ELSE 0)

\* C18: the sample written is the output stage applied to the sum of the
\* active voices' values (synth: a quarter of the sum clipped to [-1, 1];
\* mini: the limiter of the sum, 0 for 0, of the sum's sign, and two voices at
\* 0.5 give the limiter of 1.0), and it is never outside [-1, 1].
C18_OutputStageBounded ==
    LET sum == MixSum(mix, Len(mix))
        one == IF variant = "synth" THEN 4 * PTR_ONE * LEVEL_ONE ELSE LEVEL_ONE
    IN  /\ out.k
        /\ 0 - one <= out.v /\ out.v <= one
        /\ variant = "synth" =>
              out.v = (IF sum > one THEN one ELSE IF sum < 0 - one THEN 0 - one ELSE sum)
        /\ variant = "mini" =>
              /\ (sum = 0) = (out.v = 0)
              /\ (sum > 0) = (out.v > 0)
              /\ out = MOutputStage(Known(sum))

\* Two active voices at 3.0 each: the sum 6.0 is beyond what the stage lets through.
C18_LoudMix ==
    /\ \A i \in 1..Len(mix) : mix[i].isActive /\ mix[i].out = Known(3 * PTR_ONE * LEVEL_ONE)
    /\ out.k
    /\ out.v = (IF variant = "synth" THEN 4 * PTR_ONE * LEVEL_ONE ELSE LEVEL_ONE)

\* ------------------------------------------------- unknown parameter names
\* param events whose name is none of attack, decay, sustain, release,
\* filterCutoff, filterResonance.
UNKNOWN_PARAM_EVENTS == { <<"volume", 5>>, <<"filterDrive", 1>> }

\* A param event whose value is no level: sustain 1.5.
INVALID_PARAM_EVENTS == { <<"sustain", 3 * (LEVEL_ONE \div 2)>> }

NextParam ==
    \/ SynthLoadSample({SAMPLE_A})
    \/ SynthParam(PARAM_EVENTS \cup UNKNOWN_PARAM_EVENTS \cup INVALID_PARAM_EVENTS)
    \/ SynthNoteOn(WASM_NOTES, {0}, {<<0, 0>>})
    \/ SynthNoteOff(WASM_NOTES)
    \/ SynthOther
    \/ SynthInitWasm(1)
    \/ SynthWasmSettled
    \/ SynthProcessSilent
    \/ SynthProcessSample
    \/ MiniLoadSampleData({SAMPLE_A})
    \/ MiniParam(MINI_PARAM_EVENTS \cup UNKNOWN_PARAM_EVENTS \cup INVALID_PARAM_EVENTS)
    \/ MiniNoteOn({69})
    \/ MiniNoteOff({69})
    \/ MiniOther
    \/ MiniProcessSample

SpecParam == Init /\ [][NextParam]_vars

\* C19: an event without a handled type, or a param event with an unknown
\* name, leaves the parameter set, the filter coefficients and every voice's
\* envelope unchanged.
C19_UnknownParamRejected ==
    [][(\/ SynthParam(UNKNOWN_PARAM_EVENTS)
        \/ MiniParam(UNKNOWN_PARAM_EVENTS)
        \/ SynthOther
        \/ MiniOther)
       => /\ params' = params
          /\ filterCoeffs' = filterCoeffs
          /\ \A i \in 1..Len(voices) : voices'[i].envelope = voices[i].envelope
          /\ adsrParams' = adsrParams
          /\ \A i \in 1..Len(miniVoices) : miniVoices'[i].envelope = miniVoices[i].envelope
      ]_vars

\* C20: the voice a noteOn takes is the one the allocation rule computes from
\* the pool alone, it is the only voice changed, and no voice of a lower slot
\* index ties with it: none is inactive when it is inactive, none is equally
\* old when it is stolen.
C20_LowestSlotOnTies ==
    [][/\ SynthNoteOn(NOTES, PITCHES, LOOPS) =>
            \A i \in 1..Len(voices) : voices'[i] # voices[i] =>
                /\ i = SAllocate(voices)
                /\ \A j \in 1..Len(voices) : j # i => voices'[j] = voices[j]
                /\ \A j \in 1..(i - 1) :
                      IF SAllBusy THEN SAge(voices[j]) # SAge(voices[i])
                      ELSE voices[j].isActive
       /\ MiniNoteOn(MIDI_NOTES) =>
            \A i \in 1..Len(miniVoices) : miniVoices'[i] # miniVoices[i] =>
                /\ i = MAllocate(miniVoices)
                /\ \A j \in 1..Len(miniVoices) : j # i => miniVoices'[j] = miniVoices[j]
                /\ \A j \in 1..(i - 1) :
                      IF MAllBusy THEN miniVoices[j].age # miniVoices[i].age
                      ELSE ~MVoiceIsIdle(miniVoices[j])
      ]_vars

\* The first slot sounds and no other slot was ever triggered: every noteOn so
\* far found several idle voices and took slot 1.
C20_FirstSlotOfIdlePool ==
    /\ variant = "mini"
    /\ ~MVoiceIsIdle(miniVoices[1])
    /\ \A j \in 2..Len(miniVoices) : miniVoices[j].midiNote = 0 /\ MVoiceIsIdle(miniVoices[j])

\* ------------------------------------------------------ the init() fallback
\* The timer armed by init() fires.
SpecNodeFair == SpecNode /\ WF_vars(NodeTimeout)

\* C21: once init() has created the node and waits for the handshake, its
\* promise resolves with the node marked ready although no ready message is
\* ever acted on, and a message posted to a ready node goes straight to the
\* processor's port instead of the queue.
C21_InitCompletes ==
    /\ (initStage = "waiting") ~> (initStage = "resolved" /\ ready)
    /\ [][(NodeNoteOn /\ node /\ ready) =>
              /\ port' = Append(port, [type |-> "noteOn"])
              /\ pendingMessages' = pendingMessages]_vars

\* init() has resolved through the fallback and a noteOn posted afterwards is
\* on the processor's port.
C21_PostedAfterFallback ==
    /\ initStage = "resolved"
    /\ ready /\ node
    /\ queued = <<>>
    /\ port = <<[type |-> "noteOn"]>>

\* -------------------------------------------------------- envelope phases
\* C22: an envelope becomes idle only by a process() call made in release,
\* which leaves the level at exactly 0; setParams, noteOn and noteOff never
\* lead to idle, and neither does a process() call in another phase.
C22_IdleOnlyFromRelease ==
    [][(EnvState' = "idle" /\ EnvState # "idle")
          => (EnvProcess /\ EnvState = "release" /\ EnvLevel' = 0)]_vars

\* A release followed call by call has ended in idle at level 0.
C22_ReleasedToIdle ==
    /\ EnvState = "idle"
    /\ EnvLevel = 0
    /\ releaseCalls >= 1

\* C23: a process() call does not lower the level in attack, does not raise it
\* in decay or release, and keeps it in sustain, whatever setParams did
\* between the calls.
C23_LevelMonotonePerPhase ==
    [][EnvProcess =>
          /\ EnvState = "attack" => EnvLevel' >= EnvLevel
          /\ EnvState \in {"decay", "release"} => EnvLevel' <= EnvLevel
          /\ EnvState = "sustain" => EnvLevel' = EnvLevel]_vars

\* C24: every envelope's state is one of idle, attack, decay, sustain, release
\* and its level lies in [0, 1], whatever param, noteOn and noteOff events and
\* process() calls came before.
C24_EnvelopeInRange ==
    /\ \A i \in 1..Len(voices) :
          /\ voices[i].envelope.state \in {"idle", "attack", "decay", "sustain", "release"}
          /\ 0 <= voices[i].envelope.level /\ voices[i].envelope.level <= LEVEL_ONE
    /\ \A i \in 1..Len(miniVoices) :
          /\ miniVoices[i].envelope.state \in {"idle", "attack", "decay", "sustain", "release"}
          /\ 0 <= miniVoices[i].envelope.value /\ miniVoices[i].envelope.value <= LEVEL_ONE

\* C25: noteOn() leaves the envelope in attack at level 0, whatever its state
\* and level were.
C25_NoteOnRestartsFromZero ==
    [][EnvNoteOn => (EnvState' = "attack" /\ EnvLevel' = 0)]_vars

C27_PhaseOrder ==
    [][EnvProcess =>
          LET sustain == IF variant = "synth" THEN envS.sustainLevel ELSE envM.sustainLevel
              floor == IF variant = "synth" THEN EPSILON ELSE 0
          IN  /\ EnvState = "attack" =>
                    \/ EnvState' = "attack" /\ EnvLevel' < LEVEL_ONE
                    \/ EnvState' = "decay" /\ EnvLevel' = LEVEL_ONE
              /\ EnvState = "decay" =>
                    \/ EnvState' = "decay" /\ EnvLevel' > sustain
                    \/ EnvState' = "sustain" /\ EnvLevel' = sustain
              /\ EnvState = "release" =>
                    \/ EnvState' = "release" /\ EnvLevel' > floor
                    \/ EnvState' = "idle" /\ EnvLevel' = 0
              /\ EnvState = "sustain" => EnvState' = "sustain"
              /\ EnvState = "idle" => EnvState' = "idle"]_vars

\* The envelope went through attack and decay and holds in sustain below 1.0.
C27_HoldsInSustain ==
    /\ EnvState = "sustain"
    /\ EnvLevel = (IF variant = "synth" THEN envS.sustainLevel ELSE envM.sustainLevel)
    /\ EnvLevel < LEVEL_ONE

\* C28: the voice a noteOn triggers on a loaded buffer of at least one frame
\* has loopEnd >= loopStart + 1.
C28_LoopNotEmpty ==
    [][/\ (SynthNoteOn(LOAD_NOTES, LOAD_PITCHES, LOAD_LOOPS) /\ ~sampleData.isNull
              /\ Len(sampleData.frames) >= 1) =>
             LET v == voices'[SAllocate(voices)]
             IN  v.loopEnd >= v.loopStart + 1
       /\ (MiniNoteOn(MIDI_NOTES) /\ ~sampleBuffer.isNull
              /\ Len(sampleBuffer.frames) >= 1) =>
             LET v == miniVoices'[MAllocate(miniVoices)]
             IN  v.loopEnd >= v.loopStart + 1
      ]_vars

\* C29: no voice is active with an idle envelope: the render step in which a
\* voice's envelope reaches idle deactivates it, and the next allocation finds
\* an inactive (idle) voice whenever some envelope is idle.
C29_IdleVoicesInactive ==
    /\ \A i \in 1..Len(voices) :
          voices[i].envelope.state = "idle" => ~voices[i].isActive
    /\ (\E i \in 1..Len(voices) : voices[i].envelope.state = "idle")
          => ~voices[SAllocate(voices)].isActive
    /\ (\E i \in 1..Len(miniVoices) : miniVoices[i].envelope.state = "idle")
          => MVoiceIsIdle(miniVoices[MAllocate(miniVoices)])

\* A triggered voice's release has completed in the middle of a block, before
\* the end of its region, and the voice is inactive.
C29_ReleasedMidBlock ==
    /\ variant = "synth"
    /\ frame > 0
    /\ \E i \in 1..Len(voices) :
          /\ voices[i].note # -1
          /\ voices[i].envelope.state = "idle"
          /\ voices[i].samplePtr < voices[i].loopEnd * PTR_ONE
          /\ ~voices[i].isActive

\* ------------------------------------------------------ rendering goes on
\* Runs of the mini processor to which no load-sample-data message is
\* delivered, with process() called again and again.
NextRelease ==
    \/ MiniNoteOn(MIDI_NOTES)
    \/ MiniNoteOff(MIDI_NOTES)
    \/ MiniParam(MINI_PARAM_EVENTS \cup INVALID_PARAM_EVENTS)
    \/ MiniOther
    \/ MiniProcessSample

\* The worklet built from the mini processor module.
InitRelease == Init /\ variant = "mini"

SpecRelease ==
    /\ InitRelease
    /\ [][NextRelease]_vars
    /\ SF_vars(MiniProcessSample)

\* C30: a voice that a noteOff has put into release becomes inactive (its
\* envelope idle) unless a noteOn retriggers it, as long as samples keep being
\* rendered.
C30_ReleaseEnds ==
    \A i \in 1..MAX_VOICES :
        /\ (voices[i].isActive /\ voices[i].envelope.state = "release")
              ~> (~voices[i].isActive \/ voices[i].envelope.state = "attack")
        /\ (miniVoices[i].envelope.state = "release")
              ~> (miniVoices[i].envelope.state \in {"idle", "attack"})

C32_LoadSampleDelivered ==
    [][(NodeLoadSample /\ node /\ ready) =>
          port' = port \o << [type |-> "load-sample-meta"], [type |-> "load-sample-data"] >>]_vars

\* C33: a param event and a load-sample event leave every voice's render
\* state as it was: active flag, note, pitch, cursor, loop bounds, filter
\* history, envelope state and level (and, in the mini processor, the age).
C33_ParamAndLoadKeepRenderState ==
    [][(\/ SynthParam(PARAM_EVENTS)
        \/ SynthLoadSample({SAMPLE_A})
        \/ MiniParam(MINI_PARAM_EVENTS)
        \/ MiniLoadSampleData({SAMPLE_A})) =>
          \A i \in 1..MAX_VOICES :
             /\ voices'[i].isActive = voices[i].isActive
             /\ voices'[i].note = voices[i].note
             /\ voices'[i].pitchFactor = voices[i].pitchFactor
             /\ voices'[i].samplePtr = voices[i].samplePtr
             /\ voices'[i].loopStart = voices[i].loopStart
             /\ voices'[i].loopEnd = voices[i].loopEnd
             /\ voices'[i].filter = voices[i].filter
             /\ voices'[i].envelope.state = voices[i].envelope.state
             /\ voices'[i].envelope.level = voices[i].envelope.level
             /\ miniVoices'[i].midiNote = miniVoices[i].midiNote
             /\ miniVoices'[i].playbackRate = miniVoices[i].playbackRate
             /\ miniVoices'[i].samplePosition = miniVoices[i].samplePosition
             /\ miniVoices'[i].loopStart = miniVoices[i].loopStart
             /\ miniVoices'[i].loopEnd = miniVoices[i].loopEnd
             /\ miniVoices'[i].age = miniVoices[i].age
             /\ miniVoices'[i].envelope.state = miniVoices[i].envelope.state
             /\ miniVoices'[i].envelope.value = miniVoices[i].envelope.value]_vars

\* A release param event has reached a voice that is sounding part-way
\* through its region.
C33_ParamOnSoundingVoice ==
    \E i \in 1..MAX_VOICES :
        /\ voices[i].isActive
        /\ voices[i].envelope.releaseTime = 10
        /\ voices[i].envelope.level > 0
        /\ voices[i].samplePtr > voices[i].loopStart * PTR_ONE

\* C34: a process() call leaves the sample buffer, the parameter set and the
\* filter coefficients as they were; each of them changes only in the step
\* that handles the message meant for it (load-sample, param).
C34_ProcessKeepsControlState ==
    /\ [][(SynthProcessSilent \/ SynthProcessSample \/ MiniProcessSample) =>
             /\ sampleData' = sampleData
             /\ params' = params
             /\ filterCoeffs' = filterCoeffs
             /\ sampleBuffer' = sampleBuffer
             /\ adsrParams' = adsrParams]_vars
    /\ [][(sampleData' # sampleData) => SynthLoadSample({SAMPLE_A})]_vars
    /\ [][(params' # params \/ filterCoeffs' # filterCoeffs) => SynthParam(PARAM_EVENTS)]_vars
    /\ [][(sampleBuffer' # sampleBuffer) => MiniLoadSampleData({SAMPLE_A})]_vars
    /\ [][(adsrParams' # adsrParams) => MiniParam(MINI_PARAM_EVENTS)]_vars

\* A block has been rendered by a sounding voice under changed parameters and
\* computed filter coefficients, all still in place.
C34_RenderedUnderChangedParams ==
    /\ variant = "synth"
    /\ frame = 0
    /\ params.release = 10
    /\ filterCoeffs.lowpass
    /\ ~sampleData.isNull
    /\ \E i \in 1..MAX_VOICES :
          voices[i].isActive /\ voices[i].samplePtr > voices[i].loopStart * PTR_ONE

\* ------------------------------------------------------- degenerate params
\* The processors at the sample rates of a real AudioContext, driven by
\* messages only: param events carrying zero, negative and out-of-range
\* durations (ms), cutoffs (Hz) and resonances (1/10000), between loads,
\* noteOns and noteOffs.
CLAMP_RATES == {8000, 44100}
CLAMP_PARAM_EVENTS ==
    { <<"attack", 0>>, <<"decay", -20>>, <<"release", -5>>, <<"release", 2000>>,
      <<"filterCutoff", 0>>, <<"filterCutoff", -100>>, <<"filterCutoff", 1000>>,
      <<"filterCutoff", 30000>>,
      <<"filterResonance", 0>>, <<"filterResonance", -10000>>, <<"filterResonance", 7071>> }

InitClamp ==
    /\ variant \in {"synth", "mini"}
    /\ sampleRate \in CLAMP_RATES
    /\ frame = 0
    /\ out = Known(0)
    /\ SynthInit
    /\ MiniInit
    /\ EnvInit
    /\ NodeNew
    /\ UiInit
    /\ triggerBuffer = [i \in 1..MAX_VOICES |-> NullData]
    /\ disposed = FALSE
    /\ mix = [i \in 1..MAX_VOICES |-> [isActive |-> FALSE, out |-> Known(0)]]

NextClamp ==
    \/ SynthLoadSample({SAMPLE_A})
    \/ SynthParam(CLAMP_PARAM_EVENTS)
    \/ SynthNoteOn(WASM_NOTES, {0}, {<<0, 0>>})
    \/ SynthNoteOff(WASM_NOTES)
    \/ MiniLoadSampleData({SAMPLE_A})
    \/ MiniParam(CLAMP_PARAM_EVENTS)
    \/ MiniNoteOn({69})
    \/ MiniNoteOff({69})

SpecClamp == InitClamp /\ [][NextClamp]_vars

\* C35: whatever durations the param events carried, zero and negative ones
\* included, every voice's envelope works with attack, decay and release
\* durations of at least the minimum (sampler processor) and with per-sample
\* rates 1/(d * sampleRate) that are greater than 0 and at most 1 per sample
\* (both processors).
C35_DurationsCoerced ==
    \A i \in 1..MAX_VOICES :
        /\ voices[i].envelope.attackTime >= MIN_TIME
        /\ voices[i].envelope.decayTime >= MIN_TIME
        /\ voices[i].envelope.releaseTime >= MIN_TIME
        /\ Rate(LEVEL_ONE, voices[i].envelope.attackTime, sampleRate) > 0
        /\ Rate(LEVEL_ONE, voices[i].envelope.decayTime, sampleRate) > 0
        /\ Rate(LEVEL_ONE, voices[i].envelope.releaseTime, sampleRate) > 0
        /\ miniVoices[i].envelope.attackRate > 0
        /\ miniVoices[i].envelope.attackRate <= LEVEL_ONE
        /\ miniVoices[i].envelope.decayRate > 0
        /\ miniVoices[i].envelope.decayRate <= LEVEL_ONE
        /\ miniVoices[i].envelope.releaseRate > 0
        /\ miniVoices[i].envelope.releaseRate <= LEVEL_ONE

\* Param events with attack 0, decay -0.02 s and release -0.005 s have
\* reached a voice that was triggered: its envelope runs with the minimum.
C35_ZeroAndNegativeArrived ==
    /\ variant = "synth"
    /\ params.attack = 0
    /\ params.decay = -20
    /\ params.release = -5
    /\ voices[1].isActive
    /\ voices[1].envelope.attackTime = MIN_TIME
    /\ voices[1].envelope.decayTime = MIN_TIME
    /\ voices[1].envelope.releaseTime = MIN_TIME

\* C36: in the mini processor a noteOn leaves the triggered voice at age 0,
\* not above any other voice's age, and the other ages as they were; a
\* rendered sample adds exactly 1 to the age of every voice that renders (not
\* idle, buffer present and not empty) and nothing to the others, so the age
\* difference of two sounding voices stays what their triggers made it; no
\* other step changes an age.
C36_AgeCountsRenderedSamples ==
    /\ [][MiniNoteOn(MIDI_NOTES) =>
             LET a == MAllocate(miniVoices)
             IN  /\ miniVoices'[a].age = 0
                 /\ \A j \in 1..MAX_VOICES :
                       /\ j # a => miniVoices'[j].age = miniVoices[j].age
                       /\ miniVoices'[a].age <= miniVoices'[j].age]_vars
    /\ [][MiniProcessSample =>
             /\ \A i \in 1..MAX_VOICES :
                   miniVoices'[i].age =
                      IF \/ MVoiceIsIdle(miniVoices[i])
                         \/ sampleBuffer.isNull
                         \/ Len(sampleBuffer.frames) = 0
                      THEN miniVoices[i].age
                      ELSE miniVoices[i].age + 1
             /\ \A i, j \in 1..MAX_VOICES :
                   (~MVoiceIsIdle(miniVoices[i]) /\ ~MVoiceIsIdle(miniVoices[j])) =>
                      miniVoices'[i].age - miniVoices'[j].age
                         = miniVoices[i].age - miniVoices[j].age]_vars
    /\ [][(\E i \in 1..MAX_VOICES : miniVoices'[i].age # miniVoices[i].age) =>
             (MiniNoteOn(MIDI_NOTES) \/ MiniProcessSample)]_vars

\* Two voices sound, the second triggered some rendered samples after the
\* first and both rendered since.
C36_OlderBesideYounger ==
    /\ variant = "mini"
    /\ ~MVoiceIsIdle(miniVoices[1])
    /\ ~MVoiceIsIdle(miniVoices[2])
    /\ miniVoices[2].age > 0
    /\ miniVoices[1].age > miniVoices[2].age

\* ------------------------------------------------------------ attack runs
\* A single envelope that is given its parameters, triggered and processed,
\* never released. Attack times of 1, 2, 3 and 7 sample periods; with 3 and 7
\* the per-sample step is rounded and the steps do not add up to 1 exactly.
ATTACK_TIMES == {50, 100, 150, 350}

NextAttack ==
    \/ EnvSetParams(ATTACK_TIMES)
    \/ EnvNoteOn
    \/ EnvProcess

SpecAttack == Init /\ [][NextAttack]_vars

C38_FilterInputsClamped ==
    filterCoeffs.lowpass =>
        /\ filterCoeffs.frequency >= 20
        /\ filterCoeffs.frequency * 100 <= sampleRate * 45
        /\ filterCoeffs.Q > 0

\* A negative cutoff and a negative resonance have been handled: the
\* coefficients are those of 20 Hz and Q 0.001.
C38_NegativeCutoffAndResonance ==
    /\ variant = "synth"
    /\ params.filterCutoff = -100
    /\ params.filterResonance = -10000
    /\ filterCoeffs.lowpass
    /\ filterCoeffs.frequency = 20
    /\ filterCoeffs.Q = 10

\* C39: handling one noteOn changes at most one voice of the pool, the one
\* the allocation picks; every other voice keeps its note, pitch, cursor, loop
\* bounds, envelope and active flag, and the pool keeps its size.
C39_NoteOnChangesOneVoice ==
    [][(SynthNoteOn(NOTES, PITCHES, LOOPS) \/ MiniNoteOn(MIDI_NOTES)) =>
          /\ Len(voices') = Len(voices)
          /\ Len(miniVoices') = Len(miniVoices)
          /\ Cardinality({i \in 1..MAX_VOICES : voices'[i] # voices[i]}) <= 1
          /\ Cardinality({i \in 1..MAX_VOICES : miniVoices'[i] # miniVoices[i]}) <= 1
          /\ \A i \in 1..MAX_VOICES :
                /\ i # SAllocate(voices) =>
                      /\ voices'[i].note = voices[i].note
                      /\ voices'[i].samplePtr = voices[i].samplePtr
                      /\ voices'[i].loopStart = voices[i].loopStart
                      /\ voices'[i].loopEnd = voices[i].loopEnd
                      /\ voices'[i].envelope = voices[i].envelope
                      /\ voices'[i].isActive = voices[i].isActive
                /\ i # MAllocate(miniVoices) =>
                      /\ miniVoices'[i].midiNote = miniVoices[i].midiNote
                      /\ miniVoices'[i].samplePosition = miniVoices[i].samplePosition
                      /\ miniVoices'[i].loopStart = miniVoices[i].loopStart
                      /\ miniVoices'[i].loopEnd = miniVoices[i].loopEnd
                      /\ miniVoices'[i].envelope = miniVoices[i].envelope]_vars

\* A voice has just been started beside a voice that is past its attack and
\* part-way through the sample.
C39_StartedBesidePlaying ==
    /\ variant = "mini"
    /\ ~sampleBuffer.isNull
    /\ miniVoices[1].envelope.state \in {"decay", "sustain"}
    /\ miniVoices[1].age > 0
    /\ miniVoices[2].envelope.state = "attack"
    /\ miniVoices[2].age = 0
    /\ miniVoices[2].samplePosition = 0
    /\ miniVoices[2].midiNote # miniVoices[1].midiNote

\* ------------------------------------------------------- the page's guards
\* The file input's change handler up to its first await that takes time:
\* initAudioEngine starts the engine when audioCtx is unset and returns at
\* once otherwise.
UiFileChange ==
    /\ variant = "synth"
    /\ \E h \in 1..MaxFiles :
          /\ uiFiles[h] = "none"
          /\ \A k \in 1..(h - 1) : uiFiles[k] # "none"
          /\ uiFiles' = [uiFiles EXCEPT ![h] = IF uiEngine = "none" THEN "init" ELSE "decode"]
    /\ uiEngine' = IF uiEngine = "none" THEN "adding" ELSE uiEngine
    /\ UNCHANGED <<uiIsReady, readySeen, uiAudioBuffer, notesPosted,
                   processorVars, envVars, nodeVars, mix>>

\* The handler after decodeAudioData: audioBuffer is assigned and load-sample
\* is posted in the same turn, if synthNode is set. The handler that started
\* the engine gets here only after initAudioEngine has returned.
UiFileDecoded(samples) ==
    /\ SynthTurn
    /\ \E h \in 1..MaxFiles :
          /\ \/ uiFiles[h] = "decode"
             \/ uiFiles[h] = "init" /\ uiEngine \in {"initialized", "failed"}
          /\ uiFiles' = [uiFiles EXCEPT ![h] = "done"]
    /\ \E ok \in BOOLEAN, f \in samples :
          IF ok
          THEN /\ uiAudioBuffer' = Float32Array(f)
               /\ IF uiEngine \in {"fetching", "initialized"}
                  THEN SHandleMessage([type |-> "load-sample", sampleData |-> Float32Array(f)])
                  ELSE UNCHANGED synthVars
          ELSE UNCHANGED <<uiAudioBuffer, synthVars>>
    /\ UNCHANGED <<uiEngine, uiIsReady, readySeen, notesPosted, variant, sampleRate,
                   frame, out, miniVars, envVars, nodeVars, triggerBuffer, disposed, mix>>

\* playNote(note): blocked unless isReady and audioBuffer are set.
UiPlayNote(notes) ==
    /\ SynthTurn
    /\ notesPosted < MaxNotes
    /\ IF uiIsReady /\ ~uiAudioBuffer.isNull
       THEN /\ \E n \in notes :
                  SHandleMessage([type |-> "noteOn", note |-> n, pitchFactor |-> PTR_ONE,
                                  loopStart |-> 0, loopEnd |-> NORM_ONE])
            /\ triggerBuffer' = IF sampleData.isNull THEN triggerBuffer
                                ELSE [triggerBuffer EXCEPT ![SAllocate(voices)] = sampleData]
            /\ notesPosted' = notesPosted + 1
       ELSE UNCHANGED <<synthVars, triggerBuffer, notesPosted>>
    /\ UNCHANGED <<uiEngine, uiIsReady, readySeen, uiAudioBuffer, uiFiles, variant,
                   sampleRate, frame, out, miniVars, envVars, nodeVars, disposed, mix>>

\* stopNote(note)
UiStopNote(notes) ==
    /\ SynthTurn
    /\ notesPosted < MaxNotes
    /\ IF uiIsReady /\ ~uiAudioBuffer.isNull
       THEN /\ \E n \in notes : SHandleMessage([type |-> "noteOff", note |-> n])
            /\ notesPosted' = notesPosted + 1
       ELSE UNCHANGED <<synthVars, notesPosted>>
    /\ UNCHANGED <<uiEngine, uiIsReady, readySeen, uiAudioBuffer, uiFiles, variant,
                   sampleRate, frame, out, miniVars, envVars, nodeVars, triggerBuffer,
                   disposed, mix>>

NextUi ==
    \/ UiFileChange
    \/ UiModuleAdded
    \/ UiWasmFetched
    \/ UiOnReady
    \/ UiFileDecoded({SAMPLE_A, SAMPLE_B})
    \/ UiPlayNote(WASM_NOTES)
    \/ UiStopNote(WASM_NOTES)
    \/ SynthWasmSettled
    \/ SynthProcessSilent
    \/ SynthProcessSample

SpecUi == Init /\ [][NextUi]_vars

\* C40: playNote and stopNote post a message only when isReady and
\* audioBuffer are set, and whenever they post one the processor has posted
\* ready and has received the load-sample message of the decoded file the
\* page holds.
C40_NotesAfterReadyAndLoad ==
    [][(notesPosted' # notesPosted) =>
          /\ uiIsReady
          /\ ~uiAudioBuffer.isNull
          /\ readyPosted >= 1
          /\ sampleData = uiAudioBuffer]_vars

====
